---- MODULE Spec2Model ----
(***************************************************************************)
(* Workflow execution core of the event-automation hub                     *)
(* (agents/orchestrator/workflow_orchestrator.py).                         *)
(*                                                                         *)
(* Concurrency model: one asyncio event loop.  Code between two awaits is  *)
(* one atomic action.  The suspension points modelled are the collaborator *)
(* calls inside the steps, the LangGraph node boundaries, the redis writes *)
(* (setex takes effect when issued, the caller resumes later) and the      *)
(* notifier POST.  A redis read is atomic with the code that consumes it:  *)
(* the object built from it is private to the reader.                      *)
(*                                                                         *)
(* WorkflowState objects live in `heap`; active_workflows and the tasks    *)
(* hold references (object ids), so aliasing is as in the program.         *)
(***************************************************************************)
EXTENDS Integers, Sequences, FiniteSets, TLC

\* ------------------------------------------------------------------------
\* Bounds of the model
\* ------------------------------------------------------------------------
\* number of orchestrator calls (start, cancel, regenerate, update, status);
\* the specifications below run one start_workflow per session among them
MaxCalls == 2
\* number of failures injected (collaborator failures, redis failures)
MaxFaults == 2

\* call slots: enough for the specification with the most calls
TaskIds == 1..(MaxCalls + 2)
Sessions == {"s1", "s2"}

\* ------------------------------------------------------------------------
\* Python values
\* ------------------------------------------------------------------------
None == "None"
EmptyDict == << >>

Truthy(v) == v # None /\ v # ""

\* dict.get(k): the value, or None when the key is absent
Get(d, k) == IF k \in DOMAIN d THEN d[k] ELSE None

\* d[k] = v
Put(d, k, v) == [x \in DOMAIN d \cup {k} |-> IF x = k THEN v ELSE d[x]]

\* d.update(e)
DictUpdate(d, e) ==
    [x \in DOMAIN d \cup DOMAIN e |-> IF x \in DOMAIN e THEN e[x] ELSE d[x]]

Contains(seq, x) == \E i \in 1..Len(seq) : seq[i] = x

Count(seq, x) == Cardinality({i \in 1..Len(seq) : seq[i] = x})

IsPrefix(p, s) == Len(p) <= Len(s) /\ \A i \in 1..Len(p) : p[i] = s[i]

\* ------------------------------------------------------------------------
\* WorkflowStatus (enum member name -> value)
\* ------------------------------------------------------------------------
WorkflowStatus ==
    [PENDING |-> "pending", IN_PROGRESS |-> "in_progress",
     WAITING_APPROVAL |-> "waiting_approval", APPROVED |-> "approved",
     COMPLETED |-> "completed", FAILED |-> "failed", CANCELLED |-> "cancelled"]

StatusNames == DOMAIN WorkflowStatus

\* WorkflowStatus(value): the member with that value; None stands for ValueError
StatusOfValue(v) ==
    IF \E n \in StatusNames : WorkflowStatus[n] = v
    THEN CHOOSE n \in StatusNames : WorkflowStatus[n] = v
    ELSE None

\* state.status.value.upper()
Upper(v) ==
    CASE v = "pending" -> "PENDING"
      [] v = "in_progress" -> "IN_PROGRESS"
      [] v = "waiting_approval" -> "WAITING_APPROVAL"
      [] v = "approved" -> "APPROVED"
      [] v = "completed" -> "COMPLETED"
      [] v = "failed" -> "FAILED"
      [] v = "cancelled" -> "CANCELLED"
      [] OTHER -> v

\* ------------------------------------------------------------------------
\* The workflow graph
\* ------------------------------------------------------------------------
END == "__end__"

Nodes ==
    <<"validate_input", "create_flyer", "create_social_content",
      "create_whatsapp_message", "setup_google_drive", "create_calendar_event",
      "create_clickup_task", "finalize_workflow">>

NodeSet == {Nodes[i] : i \in 1..Len(Nodes)}

EntryPoint == "validate_input"

\* variant: the WhatsApp message is created before the social media content
Edges_reordered ==
    {<<"validate_input", "create_flyer">>,
     <<"create_flyer", "create_whatsapp_message">>,
     <<"create_whatsapp_message", "create_social_content">>,
     <<"create_social_content", "setup_google_drive">>,
     <<"setup_google_drive", "create_calendar_event">>,
     <<"create_calendar_event", "create_clickup_task">>,
     <<"create_clickup_task", "finalize_workflow">>,
     <<"finalize_workflow", END>>}

Edges ==
    {<<"validate_input", "create_flyer">>,
     <<"create_flyer", "create_social_content">>,
     <<"create_social_content", "create_whatsapp_message">>,
     <<"create_whatsapp_message", "setup_google_drive">>,
     <<"setup_google_drive", "create_calendar_event">>,
     <<"create_calendar_event", "create_clickup_task">>,
     <<"create_clickup_task", "finalize_workflow">>,
     <<"finalize_workflow", END>>}

Successors(n) == {e[2] : e \in {d \in Edges : d[1] = n}}

\* steps whose body awaits a collaborator
AwaitingSteps ==
    {"create_flyer", "create_social_content", "create_whatsapp_message",
     "setup_google_drive"}

\* ------------------------------------------------------------------------
\* WorkflowState
\* ------------------------------------------------------------------------
\* error_message is a sequence of message parts; << >> stands for None
NoMessage == << >>

\* a naive datetime; isoformat() leaves the fraction out when the
\* microseconds are zero and fromisoformat() reads both forms
NoTime == [none |-> TRUE]

isoformat(dt) ==
    IF dt.micro = 0
    THEN [date |-> dt.day, time |-> dt.minute]
    ELSE [date |-> dt.day, time |-> dt.minute, frac |-> dt.micro]

\* variant: the fraction of the second is not read back
fromisoformat_seconds(str) ==
    [day |-> str.date, minute |-> str.time, micro |-> 0]

fromisoformat(str) ==
    [day |-> str.date, minute |-> str.time,
     micro |-> IF "frac" \in DOMAIN str THEN str.frac ELSE 0]

\* dt + timedelta(minutes = m)
PlusMinutes(dt, m) == [dt EXCEPT !.minute = @ + m]

\* total_steps in calculate_progress
TotalSteps == 8

\* variant: the percentage is not capped
calculate_progress_uncapped(st) == (Len(st.completed_steps) * 100) \div TotalSteps

\* min(int((completed / total_steps) * 100), 100); the quotient by 8 and its
\* product with 100 are exact in floating point, so int() is the integer floor
calculate_progress(st) ==
    LET p == (Len(st.completed_steps) * 100) \div TotalSteps
    IN  IF p < 100 THEN p ELSE 100

\* the record json.dumps writes / get_workflow_status returns
to_dict(st) ==
    [session_id |-> st.session_id,
     event_id |-> st.event_id,
     status |-> WorkflowStatus[st.status],
     current_step |-> st.current_step,
     completed_steps |-> st.completed_steps,
     failed_steps |-> st.failed_steps,
     event_data |-> st.event_data,
     content_preferences |-> st.content_preferences,
     user_info |-> st.user_info,
     generated_content |-> st.generated_content,
     start_time |-> isoformat(st.start_time),
     estimated_completion |-> IF st.estimated_completion # NoTime
                              THEN isoformat(st.estimated_completion)
                              ELSE NoTime,
     error_message |-> st.error_message,
     progress_percentage |-> calculate_progress(st)]

\* the WorkflowState _get_workflow_state rebuilds from a stored record
from_dict(data) ==
    [session_id |-> data.session_id,
     event_id |-> data.event_id,
     status |-> StatusOfValue(data.status),
     current_step |-> data.current_step,
     completed_steps |-> data.completed_steps,
     failed_steps |-> data.failed_steps,
     event_data |-> data.event_data,
     content_preferences |-> data.content_preferences,
     user_info |-> data.user_info,
     generated_content |-> data.generated_content,
     start_time |-> fromisoformat(data.start_time),
     estimated_completion |-> IF data.estimated_completion # NoTime
                              THEN fromisoformat(data.estimated_completion)
                              ELSE NoTime,
     error_message |-> data.error_message]

\* variant: the run is created PENDING
NewState_pending(sid, eid, event_data, prefs, user_info, now) ==
    [session_id |-> sid,
     event_id |-> eid,
     status |-> "PENDING",
     current_step |-> "validate_input",
     completed_steps |-> << >>,
     failed_steps |-> << >>,
     event_data |-> event_data,
     content_preferences |-> prefs,
     user_info |-> user_info,
     generated_content |-> EmptyDict,
     start_time |-> now,
     estimated_completion |-> PlusMinutes(now, 3),
     error_message |-> NoMessage]

\* the WorkflowState start_workflow constructs
NewState(sid, eid, event_data, prefs, user_info, now) ==
    [session_id |-> sid,
     event_id |-> eid,
     status |-> "IN_PROGRESS",
     current_step |-> "validate_input",
     completed_steps |-> << >>,
     failed_steps |-> << >>,
     event_data |-> event_data,
     content_preferences |-> prefs,
     user_info |-> user_info,
     generated_content |-> EmptyDict,
     start_time |-> now,
     estimated_completion |-> PlusMinutes(now, 3),
     error_message |-> NoMessage]

\* state.error_message + "; " + msg if state.error_message else msg
JoinMessage(old, msg) == IF old # NoMessage THEN old \o msg ELSE msg

\* ------------------------------------------------------------------------
\* Step implementations.  A step that awaits a collaborator is split at the
\* await: <name>_begin runs up to the call, <name>_end consumes its outcome
\* res = [raised |-> BOOLEAN, val |-> the returned dict].
\* ------------------------------------------------------------------------
RequiredEventFields == <<"title", "description", "start_date">>

\* variant: only the first missing field is reported
MissingFields_first(event_data) ==
    LET all == SelectSeq(RequiredEventFields, LAMBDA f : ~Truthy(Get(event_data, f)))
    IN  IF all = << >> THEN << >> ELSE <<Head(all)>>

MissingFields(event_data) ==
    SelectSeq(RequiredEventFields, LAMBDA f : ~Truthy(Get(event_data, f)))

\* variant: a rejected input re-raises without being recorded in failed_steps
validate_input_unrecorded(st) ==
    LET s0 == [st EXCEPT !.current_step = "validate_input"]
        missing == MissingFields(s0.event_data)
        fail(msg) == [st |-> [s0 EXCEPT !.error_message = msg], raised |-> TRUE]
    IN  IF missing # << >>
        THEN fail(<<"Missing required event data fields">> \o missing)
        ELSE IF s0.content_preferences = EmptyDict
        THEN fail(<<"Content preferences are missing or not a valid structure.">>)
        ELSE [st |-> [s0 EXCEPT !.completed_steps = Append(@, "validate_input")],
              raised |-> FALSE]

\* _validate_input: [st |-> state after the step, raised |-> it re-raised]
validate_input(st) ==
    LET s0 == [st EXCEPT !.current_step = "validate_input"]
        missing == MissingFields(s0.event_data)
        fail(msg) ==
            [st |-> [s0 EXCEPT !.failed_steps = Append(@, "validate_input"),
                                !.error_message = msg],
             raised |-> TRUE]
    IN  IF missing # << >>
        THEN fail(<<"Missing required event data fields">> \o missing)
        ELSE IF s0.content_preferences = EmptyDict
        THEN fail(<<"Content preferences are missing or not a valid structure.">>)
        ELSE LET s1 == IF ~Truthy(Get(s0.content_preferences, "flyer_style"))
                       THEN [s0 EXCEPT !.content_preferences =
                                            Put(@, "flyer_style", "professional")]
                       ELSE s0
             IN  [st |-> [s1 EXCEPT !.completed_steps = Append(@, "validate_input")],
                  raised |-> FALSE]

create_flyer_begin(st) == [st EXCEPT !.current_step = "create_flyer"]

create_flyer_end(st, res) ==
    IF res.raised
    THEN [st EXCEPT !.failed_steps = Append(@, "create_flyer"),
                    !.error_message =
                        IF @ # NoMessage
                        THEN @ \o <<"Flyer creation error", "exc">>
                        ELSE <<"exc">>]
    ELSE IF Truthy(Get(res.val, "error"))
    THEN [st EXCEPT !.generated_content = Put(@, "flyer_error", res.val["error"]),
                    !.failed_steps = Append(@, "create_flyer")]
    ELSE [st EXCEPT !.generated_content =
                        DictUpdate(@,
                            [flyer_url |-> Get(res.val, "flyer_url"),
                             flyer_render_id |-> Get(res.val, "flyer_render_id"),
                             flyer_template_id |-> Get(res.val, "flyer_template_id"),
                             flyer_format |-> Get(res.val, "flyer_format"),
                             design_notes |-> Get(res.val, "design_notes")]),
                    !.completed_steps = Append(@, "create_flyer")]

\* variant: the collaborator is called whether or not there is a flyer_url
create_social_content_always(st) ==
    [st |-> [st EXCEPT !.current_step = "create_social_content"], awaiting |-> TRUE]

\* _create_social_content up to the collaborator call:
\* [st |-> state, awaiting |-> the collaborator was called]
create_social_content_begin(st) ==
    LET s0 == [st EXCEPT !.current_step = "create_social_content"]
    IN  IF ~Truthy(Get(s0.generated_content, "flyer_url"))
        THEN [st |-> [s0 EXCEPT
                        !.failed_steps = Append(@, "create_social_content"),
                        !.generated_content =
                            Put(@, "social_media_error", "Flyer URL missing")],
              awaiting |-> FALSE]
        ELSE [st |-> s0, awaiting |-> TRUE]

create_social_content_end(st, res) ==
    IF res.raised
    THEN [st EXCEPT !.failed_steps = Append(@, "create_social_content"),
                    !.generated_content =
                        Put(@, "social_media_error",
                            "Social media caption generation error"),
                    !.error_message =
                        JoinMessage(@, <<"Social media caption generation error",
                                         "exc">>)]
    ELSE LET s1 == [st EXCEPT !.generated_content =
                        DictUpdate(@,
                            [instagram_caption |-> Get(res.val, "instagram_caption"),
                             linkedin_caption |-> Get(res.val, "linkedin_caption"),
                             twitter_caption |-> Get(res.val, "twitter_caption")])]
         IN  IF Truthy(Get(res.val, "social_media_error"))
             THEN [s1 EXCEPT !.generated_content =
                                 Put(@, "social_media_error",
                                     res.val["social_media_error"]),
                             !.failed_steps = Append(@, "create_social_content")]
             ELSE [s1 EXCEPT !.completed_steps = Append(@, "create_social_content")]

create_whatsapp_message_begin(st) ==
    [st EXCEPT !.current_step = "create_whatsapp_message"]

create_whatsapp_message_end(st, res) ==
    LET except(s) ==
            [s EXCEPT !.failed_steps = Append(@, "create_whatsapp_message"),
                      !.generated_content =
                          Put(@, "whatsapp_message_error",
                              "WhatsApp message creation error"),
                      !.error_message =
                          JoinMessage(@, <<"WhatsApp message creation error", "exc">>)]
    IN  IF res.raised
        THEN except(st)
        ELSE IF Truthy(Get(res.val, "error"))
        THEN [st EXCEPT !.generated_content =
                            Put(@, "whatsapp_message_error", res.val["error"]),
                        !.failed_steps = Append(@, "create_whatsapp_message")]
        ELSE LET whatsapp_text == Get(res.val, "whatsapp_message_text")
                 s1 == [st EXCEPT !.generated_content =
                                      Put(@, "whatsapp_message", whatsapp_text)]
             IN  \* whatsapp_text[:100] raises TypeError on None
                 IF whatsapp_text = None
                 THEN except(s1)
                 ELSE [s1 EXCEPT !.completed_steps =
                                     Append(@, "create_whatsapp_message")]

setup_google_drive_begin(st) == [st EXCEPT !.current_step = "setup_google_drive"]

\* variant: the except clause records the failure after the step has already
\* recorded its completion
setup_google_drive_end_twice(st, res) ==
    IF res.raised
    THEN [st EXCEPT !.completed_steps = Append(@, "setup_google_drive"),
                    !.failed_steps = Append(@, "setup_google_drive"),
                    !.error_message =
                        JoinMessage(@, <<"Google Drive setup error", "exc">>)]
    ELSE IF Truthy(Get(res.val, "error"))
    THEN [st EXCEPT !.failed_steps = Append(@, "setup_google_drive")]
    ELSE [st EXCEPT !.generated_content =
                        DictUpdate(@,
                            [google_drive_folder_id |-> Get(res.val, "folder_id"),
                             google_drive_folder_url |-> Get(res.val, "folder_url")]),
                    !.completed_steps = Append(@, "setup_google_drive")]

setup_google_drive_end(st, res) ==
    IF res.raised
    THEN [st EXCEPT !.failed_steps = Append(@, "setup_google_drive"),
                    !.error_message =
                        JoinMessage(@, <<"Google Drive setup error", "exc">>)]
    ELSE IF Truthy(Get(res.val, "error"))
    THEN [st EXCEPT !.failed_steps = Append(@, "setup_google_drive")]
    ELSE [st EXCEPT !.generated_content =
                        DictUpdate(@,
                            [google_drive_folder_id |-> Get(res.val, "folder_id"),
                             google_drive_folder_url |-> Get(res.val, "folder_url")]),
                    !.completed_steps = Append(@, "setup_google_drive")]

create_calendar_event(st) ==
    [st EXCEPT !.current_step = "create_calendar_event",
               !.completed_steps = Append(@, "create_calendar_event")]

create_clickup_task(st) ==
    [st EXCEPT !.current_step = "create_clickup_task",
               !.completed_steps = Append(@, "create_clickup_task")]

finalize_workflow(st) ==
    [st EXCEPT !.current_step = "finalize_workflow",
               !.status = "COMPLETED",
               !.completed_steps = Append(@, "finalize_workflow")]

\* the part of step `name` that runs before its first await
StepBegin(name, st) ==
    CASE name = "validate_input" ->
            LET r == validate_input(st)
            IN  [st |-> r.st, awaiting |-> FALSE, raised |-> r.raised,
                 exc |-> IF r.raised THEN r.st.error_message ELSE NoMessage]
      [] name = "create_flyer" ->
            [st |-> create_flyer_begin(st), awaiting |-> TRUE, raised |-> FALSE,
             exc |-> NoMessage]
      [] name = "create_social_content" ->
            LET r == create_social_content_begin(st)
            IN  [st |-> r.st, awaiting |-> r.awaiting, raised |-> FALSE,
             exc |-> NoMessage]
      [] name = "create_whatsapp_message" ->
            [st |-> create_whatsapp_message_begin(st), awaiting |-> TRUE,
             raised |-> FALSE, exc |-> NoMessage]
      [] name = "setup_google_drive" ->
            [st |-> setup_google_drive_begin(st), awaiting |-> TRUE,
             raised |-> FALSE, exc |-> NoMessage]
      [] name = "create_calendar_event" ->
            [st |-> create_calendar_event(st), awaiting |-> FALSE, raised |-> FALSE,
             exc |-> NoMessage]
      [] name = "create_clickup_task" ->
            [st |-> create_clickup_task(st), awaiting |-> FALSE, raised |-> FALSE,
             exc |-> NoMessage]
      [] name = "finalize_workflow" ->
            [st |-> finalize_workflow(st), awaiting |-> FALSE, raised |-> FALSE,
             exc |-> NoMessage]

\* variant: create_flyer re-raises what its collaborator raised
StepEnd_reraise(name, st, res) ==
    [st |-> CASE name = "create_flyer" -> create_flyer_end(st, res)
              [] name = "create_social_content" -> create_social_content_end(st, res)
              [] name = "create_whatsapp_message" ->
                    create_whatsapp_message_end(st, res)
              [] name = "setup_google_drive" -> setup_google_drive_end(st, res),
     raised |-> name = "create_flyer" /\ res.raised,
     exc |-> IF name = "create_flyer" /\ res.raised
             THEN <<"Flyer generation failed">> ELSE NoMessage]

\* the part of step `name` that runs after its collaborator call; each of
\* these steps ends its try block with `except Exception` and does not re-raise
StepEnd(name, st, res) ==
    [st |-> CASE name = "create_flyer" -> create_flyer_end(st, res)
              [] name = "create_social_content" -> create_social_content_end(st, res)
              [] name = "create_whatsapp_message" ->
                    create_whatsapp_message_end(st, res)
              [] name = "setup_google_drive" -> setup_google_drive_end(st, res),
     raised |-> FALSE,
     exc |-> NoMessage]

\* ------------------------------------------------------------------------
\* Collaborators: what a call may produce.  v tags the generated values.
\* ------------------------------------------------------------------------
Raised == [raised |-> TRUE, val |-> EmptyDict]
Returned(d) == [raised |-> FALSE, val |-> d]

\* the result of a call that worked
Success(name, v) ==
    CASE name = "create_flyer" ->
            Returned([flyer_url |-> v, flyer_render_id |-> v,
                      flyer_template_id |-> v, flyer_format |-> v,
                      design_notes |-> v])
      [] name = "create_social_content" ->
            Returned([instagram_caption |-> v, linkedin_caption |-> v,
                      twitter_caption |-> v])
      [] name = "create_whatsapp_message" ->
            Returned([whatsapp_message_text |-> v])
      [] name = "setup_google_drive" ->
            Returned([folder_id |-> v, folder_url |-> v])

Outcomes(name, v) ==
    CASE name = "create_flyer" ->
            {Returned([flyer_url |-> v, flyer_render_id |-> v,
                       flyer_template_id |-> v, flyer_format |-> v,
                       design_notes |-> v]),
             Returned([flyer_render_id |-> v, flyer_template_id |-> v,
                       flyer_format |-> v]),
             Returned([error |-> "flyer failed"]),
             Raised}
      [] name = "create_social_content" ->
            {Returned([instagram_caption |-> v, linkedin_caption |-> v,
                       twitter_caption |-> v]),
             Returned([instagram_caption |-> v,
                       social_media_error |-> "captions failed"]),
             Raised}
      [] name = "create_whatsapp_message" ->
            {Returned([whatsapp_message_text |-> v]),
             Returned([message |-> v]),
             Returned([error |-> "whatsapp failed"]),
             Raised}
      [] name = "setup_google_drive" ->
            {Returned([folder_id |-> v, folder_url |-> v]),
             Returned([error |-> "drive failed"]),
             Raised}
      [] OTHER -> {}

\* ------------------------------------------------------------------------
\* Inputs of the calls
\* ------------------------------------------------------------------------
EventDatas ==
    {[title |-> "Gala", description |-> "Annual gala", start_date |-> "2026-01-10"],
     [title |-> "", description |-> "Annual gala", start_date |-> "2026-01-10"],
     [description |-> "Annual gala"]}

UserInfo == [user_id |-> "u1"]

\* datetime.utcnow() in call t; the microseconds are zero in every other call
Now(t) ==
    [day |-> "2026-01-10", minute |-> 600 + t,
     micro |-> IF t % 2 = 0 THEN 0 ELSE 250000]

PreferenceInputs == {[flyer_style |-> "modern"], [tone |-> "formal"], EmptyDict}

RegenerationTypes == {"flyer", "social", "whatsapp", "all"}

PreferenceOverrides == {EmptyDict, [flyer_style |-> "bold"]}

\* values produced by the collaborator calls of call number t
ValueTags == <<"v1", "v2", "v3", "v4", "v5", "v6", "v7", "v8">>
Tag(t) == ValueTags[t]

\* ------------------------------------------------------------------------
\* State
\* ------------------------------------------------------------------------
VARIABLES
    heap,           \* heap[t]: the WorkflowState object created by call t
    active,         \* active_workflows: session id -> object id (0: no entry)
    store,          \* redis: session id -> stored record
    task,           \* the calls made so far and where each one stands
    storeFailed,    \* a redis read or write for the session has failed
    faults,         \* failures injected so far (collaborators and redis)
    limits          \* how many calls, starts and failures a behaviour may hold,
                    \* and whether regenerate_content may overlap a running pipeline

vars == <<heap, active, store, task, storeFailed, faults, limits>>

NoObj == [none |-> TRUE]
NoRec == [none |-> TRUE]

IdleTask ==
    [kind |-> "idle", sid |-> "", obj |-> 0, pc |-> "idle", node |-> "",
     todo |-> << >>, rtype |-> "", prefs |-> EmptyDict, exc |-> NoMessage,
     invoked |-> << >>,
     ret |-> "", result |-> NoRec, src |-> "", notified |-> << >>,
     pushed |-> EmptyDict, input |-> NoRec]

InitState ==
    /\ heap = [t \in TaskIds |-> NoObj]
    /\ active = [s \in Sessions |-> 0]
    /\ store = [s \in Sessions |-> NoRec]
    /\ task = [t \in TaskIds |-> IdleTask]
    /\ storeFailed = [s \in Sessions |-> FALSE]
    /\ faults = 0

Init ==
    /\ InitState
    /\ limits = [calls |-> MaxCalls, starts |-> 1, faults |-> MaxFaults,
                 overlap |-> FALSE, sessions |-> {"s1"}]

\* the slot of the next call
FreeIds == {t \in TaskIds : task[t].kind = "idle"}
NewId == CHOOSE t \in FreeIds : \A u \in FreeIds : t <= u

CallsOf(kind) == {t \in TaskIds : task[t].kind = kind}

\* a further call fits the bounds
MayCall == FreeIds # {} /\ Cardinality(TaskIds \ FreeIds) < limits.calls

\* this action injects n failures
Fault(n) ==
    /\ faults + n <= limits.faults
    /\ faults' = faults + n
    /\ UNCHANGED limits

B(failed) == IF failed THEN 1 ELSE 0

\* the state object task t works on
Obj(t) == heap[task[t].obj]

\* the step whose collaborator call task t awaits ("" when it awaits none)
AwaitedStep(t) ==
    IF task[t].pc # "await" THEN ""
    ELSE IF task[t].kind = "start" THEN task[t].node
    ELSE Head(task[t].todo)

\* _store_workflow_state: setex of the serialized state; a failure is swallowed
StoreWrite(st, ok) ==
    /\ store' = IF ok THEN [store EXCEPT ![st.session_id] = to_dict(st)] ELSE store
    /\ storeFailed' = IF ok THEN storeFailed
                      ELSE [storeFailed EXCEPT ![st.session_id] = TRUE]

\* the payload _notify_backend posts (a backend callback URL is configured);
\* error_message is included only when it is set
Payload(st) ==
    LET base == [session_id |-> st.session_id,
                 status |-> Upper(WorkflowStatus[st.status]),
                 current_step |-> st.current_step,
                 completed_steps |-> st.completed_steps,
                 failed_steps |-> st.failed_steps,
                 generated_content |-> st.generated_content]
    IN  IF st.error_message # NoMessage
        THEN Put(base, "error_message", st.error_message)
        ELSE base

\* how an invocation of _notify_backend ends: the POST went through, it
\* failed (an HTTP error status, a request error or any other exception, all
\* three logged), or no callback URL is configured and none was attempted
NotifyOutcomes == {"ok", "error", "skipped"}

\* _notify_backend called by task t: the invocation is recorded with the
\* payload it posted; nothing is raised to the caller
NotifyBackend(t, post) ==
    Append(task[t].notified,
           [outcome |-> post,
            payload |-> IF post = "skipped" THEN NoRec ELSE Payload(Obj(t))])

\* variant: only active_workflows is consulted
GetWorkflowState_memory(t, sid, readOk) ==
    IF active[sid] # 0
    THEN [found |-> TRUE, ref |-> active[sid], copy |-> NoObj]
    ELSE [found |-> FALSE, ref |-> 0, copy |-> NoObj]

\* _get_workflow_state as seen by call t: memory first, then redis.
\* [found, ref: object id, copy: the object rebuilt from redis or NoObj]
GetWorkflowState(t, sid, readOk) ==
    IF active[sid] # 0
    THEN [found |-> TRUE, ref |-> active[sid], copy |-> NoObj]
    ELSE IF readOk /\ store[sid] # NoRec
    THEN [found |-> TRUE, ref |-> t, copy |-> from_dict(store[sid])]
    ELSE [found |-> FALSE, ref |-> 0, copy |-> NoObj]

\* redis is read only when the id is not in memory
ReadFailed(sid, readOk) == active[sid] = 0 /\ ~readOk

\* the bookkeeping of a call that read (and perhaps wrote) redis
StoreFaults(sid, readOk, wrote, writeOk) ==
    /\ storeFailed' = IF ReadFailed(sid, readOk) \/ (wrote /\ ~writeOk)
                      THEN [storeFailed EXCEPT ![sid] = TRUE]
                      ELSE storeFailed
    /\ Fault(B(ReadFailed(sid, readOk)) + B(wrote /\ ~writeOk))

\* ------------------------------------------------------------------------
\* start_workflow and _execute_workflow
\* ------------------------------------------------------------------------
\* start_workflow up to the await of the redis write
StartWorkflow(sid, event_data, prefs, writeOk) ==
    /\ MayCall
    /\ Cardinality(CallsOf("start")) < limits.starts
    /\ LET t == NewId
           state == NewState(sid, "e1", event_data, prefs, UserInfo, Now(t))
       IN  /\ heap' = [heap EXCEPT ![t] = state]
           /\ active' = [active EXCEPT ![sid] = t]
           /\ StoreWrite(state, writeOk)
           /\ Fault(B(~writeOk))
           /\ task' = [task EXCEPT ![t] =
                          [IdleTask EXCEPT !.kind = "start", !.sid = sid,
                                           !.obj = t, !.pc = "start_stored"]]

\* asyncio.create_task(self._execute_workflow(state)); return state
StartReturn(t) ==
    /\ task[t].kind = "start" /\ task[t].pc = "start_stored"
    /\ task' = [task EXCEPT ![t].pc = "node", ![t].node = EntryPoint,
                            ![t].ret = "state"]
    /\ UNCHANGED <<heap, active, store, storeFailed, faults, limits>>

\* node n returned: the graph moves along its edge
AfterNode(t, n, invoked) ==
    \E m \in Successors(n) :
        task' = [task EXCEPT ![t].invoked = invoked,
                             ![t].pc = IF m = END THEN "graph_done" ELSE "node",
                             ![t].node = m]

\* the graph invokes the next node; the node runs up to its first await
RunNode(t) ==
    /\ task[t].kind = "start" /\ task[t].pc = "node"
    /\ LET n == task[t].node
           r == StepBegin(n, Obj(t))
       IN  /\ heap' = [heap EXCEPT ![task[t].obj] = r.st]
           /\ IF r.raised
              THEN task' = [task EXCEPT ![t].invoked = Append(@, n),
                                        ![t].pc = "raised",
                                        ![t].exc = r.exc]
              ELSE IF r.awaiting
              THEN task' = [task EXCEPT ![t].invoked = Append(@, n),
                                        ![t].pc = "await"]
              ELSE AfterNode(t, n, Append(task[t].invoked, n))
    /\ UNCHANGED <<active, store, storeFailed, faults, limits>>

\* the collaborator call of the running node returns or raises
StepReturn(t, res) ==
    /\ task[t].kind = "start" /\ task[t].pc = "await"
    /\ res \in Outcomes(AwaitedStep(t), Tag(t))
    /\ Fault(B(res # Success(AwaitedStep(t), Tag(t))))
    /\ LET r == StepEnd(task[t].node, Obj(t), res)
       IN  /\ heap' = [heap EXCEPT ![task[t].obj] = r.st]
           /\ IF r.raised
              THEN task' = [task EXCEPT ![t].pc = "raised", ![t].exc = r.exc]
              ELSE AfterNode(t, task[t].node, task[t].invoked)
    /\ UNCHANGED <<active, store, storeFailed>>

\* variant: the COMPLETED state is not stored
ExecComplete_nostore(t, writeOk) ==
    /\ task[t].kind = "start" /\ task[t].pc = "graph_done"
    /\ writeOk
    /\ heap' = [heap EXCEPT ![task[t].obj] =
                    [Obj(t) EXCEPT !.status = "COMPLETED",
                                   !.current_step = "completed"]]
    /\ task' = [task EXCEPT ![t].pc = "complete_stored"]
    /\ UNCHANGED <<active, store, storeFailed, faults, limits>>

\* ainvoke returned: mark COMPLETED and store
ExecComplete(t, writeOk) ==
    /\ task[t].kind = "start" /\ task[t].pc = "graph_done"
    /\ LET st == [Obj(t) EXCEPT !.status = "COMPLETED", !.current_step = "completed"]
       IN  /\ heap' = [heap EXCEPT ![task[t].obj] = st]
           /\ StoreWrite(st, writeOk)
    /\ Fault(B(~writeOk))
    /\ task' = [task EXCEPT ![t].pc = "complete_stored"]
    /\ UNCHANGED active

\* variant: a failed notification raises into _execute_workflow
ExecCompleteNotify_raise(t, post) ==
    /\ task[t].kind = "start" /\ task[t].pc = "complete_stored"
    /\ post \in NotifyOutcomes
    /\ active' = [active EXCEPT ![Obj(t).session_id] = task[t].obj]
    /\ task' = [task EXCEPT ![t].pc = IF post = "error" THEN "raised" ELSE "notified",
                            ![t].exc = IF post = "error" THEN <<"notification failed">>
                                       ELSE @,
                            ![t].notified = NotifyBackend(t, post)]
    /\ Fault(B(post # "ok"))
    /\ UNCHANGED <<heap, store, storeFailed>>

\* after the store: re-register in active_workflows and notify
ExecCompleteNotify(t, post) ==
    /\ task[t].kind = "start" /\ task[t].pc = "complete_stored"
    /\ post \in NotifyOutcomes
    /\ active' = [active EXCEPT ![Obj(t).session_id] = task[t].obj]
    /\ task' = [task EXCEPT ![t].pc = "notified",
                            ![t].notified = NotifyBackend(t, post)]
    /\ Fault(B(post # "ok"))
    /\ UNCHANGED <<heap, store, storeFailed>>

\* except Exception: mark FAILED and store
ExecFail(t, writeOk) ==
    /\ task[t].kind = "start" /\ task[t].pc = "raised"
    /\ LET st == [Obj(t) EXCEPT !.status = "FAILED",
                                !.error_message = task[t].exc,
                                !.current_step = "error"]
       IN  /\ heap' = [heap EXCEPT ![task[t].obj] = st]
           /\ StoreWrite(st, writeOk)
    /\ Fault(B(~writeOk))
    /\ task' = [task EXCEPT ![t].pc = "fail_stored"]
    /\ UNCHANGED active

ExecFailNotify(t, post) ==
    /\ task[t].kind = "start" /\ task[t].pc = "fail_stored"
    /\ post \in NotifyOutcomes
    /\ task' = [task EXCEPT ![t].pc = "notified",
                            ![t].notified = NotifyBackend(t, post)]
    /\ Fault(B(post # "ok"))
    /\ UNCHANGED <<heap, active, store, storeFailed>>

\* variant: the finished run stays registered
ExecFinally_keep(t) ==
    /\ task[t].kind = "start" /\ task[t].pc = "notified"
    /\ task' = [task EXCEPT ![t].pc = "done"]
    /\ UNCHANGED <<heap, active, store, storeFailed, faults, limits>>

\* variant: the finally block empties active_workflows
ExecFinally_clear(t) ==
    /\ task[t].kind = "start" /\ task[t].pc = "notified"
    /\ active' = [s \in Sessions |-> 0]
    /\ task' = [task EXCEPT ![t].pc = "done"]
    /\ UNCHANGED <<heap, store, storeFailed, faults, limits>>

\* finally: evict a COMPLETED or FAILED run
ExecFinally(t) ==
    /\ task[t].kind = "start" /\ task[t].pc = "notified"
    /\ active' = IF /\ active[Obj(t).session_id] # 0
                    /\ Obj(t).status \in {"COMPLETED", "FAILED"}
                 THEN [active EXCEPT ![Obj(t).session_id] = 0]
                 ELSE active
    /\ task' = [task EXCEPT ![t].pc = "done"]
    /\ UNCHANGED <<heap, store, storeFailed, faults, limits>>

\* ------------------------------------------------------------------------
\* cancel_workflow
\* ------------------------------------------------------------------------
\* cancel_workflow up to the await of the redis write, or to `return False`
CancelWorkflow(sid, readOk, writeOk) ==
    /\ MayCall
    /\ LET t == NewId
           g == GetWorkflowState(t, sid, readOk)
           old == IF g.copy # NoObj THEN g.copy ELSE heap[g.ref]
           new == [old EXCEPT !.status = "CANCELLED", !.current_step = "cancelled"]
           call == [IdleTask EXCEPT !.kind = "cancel", !.sid = sid]
       IN  IF g.found /\ old.status = "IN_PROGRESS"
           THEN /\ heap' = [heap EXCEPT ![g.ref] = new]
                /\ store' = IF writeOk THEN [store EXCEPT ![sid] = to_dict(new)]
                            ELSE store
                /\ StoreFaults(sid, readOk, TRUE, writeOk)
                /\ task' = [task EXCEPT ![t] =
                               [call EXCEPT !.obj = g.ref, !.pc = "cancel_stored"]]
           ELSE /\ task' = [task EXCEPT ![t] =
                               [call EXCEPT !.pc = "done", !.ret = "False"]]
                /\ StoreFaults(sid, readOk, FALSE, writeOk)
                /\ UNCHANGED <<heap, store>>
    /\ UNCHANGED active

\* after the store: drop the active entry, return True
CancelReturn(t) ==
    /\ task[t].kind = "cancel" /\ task[t].pc = "cancel_stored"
    /\ active' = [active EXCEPT ![task[t].sid] = 0]
    /\ task' = [task EXCEPT ![t].pc = "done", ![t].ret = "True"]
    /\ UNCHANGED <<heap, store, storeFailed, faults, limits>>

\* ------------------------------------------------------------------------
\* update_workflow_progress
\* ------------------------------------------------------------------------
\* an argument left at None
NoList == <<None>>

ListGiven(l) == l # NoList /\ l # << >>

UpdateInputs ==
    {[status |-> "in_progress", current_step |-> "create_flyer",
      completed_steps |-> NoList, failed_steps |-> NoList,
      error_message |-> NoMessage, generated_content |-> EmptyDict],
     [status |-> "completed", current_step |-> "uploading",
      completed_steps |-> <<"validate_input">>, failed_steps |-> << >>,
      error_message |-> NoMessage,
      generated_content |-> [whatsapp_message |-> "pushed"]],
     [status |-> "failed", current_step |-> "create_flyer",
      completed_steps |-> << >>, failed_steps |-> <<"create_flyer">>,
      error_message |-> <<"pushed error">>, generated_content |-> EmptyDict],
     [status |-> "no_such_status", current_step |-> "create_flyer",
      completed_steps |-> <<"validate_input">>, failed_steps |-> NoList,
      error_message |-> NoMessage, generated_content |-> EmptyDict]}

\* the assignments of update_workflow_progress to the loaded state
ApplyUpdate(st, in) ==
    [st EXCEPT
        !.status = StatusOfValue(in.status),
        !.current_step = in.current_step,
        !.completed_steps = IF ListGiven(in.completed_steps)
                            THEN in.completed_steps ELSE @,
        !.failed_steps = IF ListGiven(in.failed_steps) THEN in.failed_steps ELSE @,
        !.error_message = IF in.error_message # NoMessage
                          THEN in.error_message ELSE @,
        !.generated_content = IF in.generated_content # EmptyDict
                              THEN DictUpdate(@, in.generated_content) ELSE @]

\* variant: current_step is assigned before the status string is converted
UpdateWorkflowProgress_stepfirst(sid, in, readOk, writeOk) ==
    /\ MayCall
    /\ LET t == NewId
           g == GetWorkflowState(t, sid, readOk)
           old == IF g.copy # NoObj THEN g.copy ELSE heap[g.ref]
           call == [IdleTask EXCEPT !.kind = "update", !.sid = sid,
                                    !.pushed = in.generated_content,
                                    !.input = in]
       IN  IF g.found /\ StatusOfValue(in.status) # None
           THEN LET new == ApplyUpdate(old, in)
                IN  /\ heap' = [heap EXCEPT ![g.ref] = new]
                    /\ store' = IF writeOk
                                THEN [store EXCEPT ![sid] = to_dict(new)]
                                ELSE store
                    /\ StoreFaults(sid, readOk, TRUE, writeOk)
                    /\ task' = [task EXCEPT ![t] =
                                   [call EXCEPT !.obj = g.ref,
                                                !.pc = "update_stored"]]
           ELSE /\ task' = [task EXCEPT ![t] = [call EXCEPT !.pc = "done"]]
                /\ StoreFaults(sid, readOk, FALSE, writeOk)
                /\ heap' = IF g.found
                           THEN [heap EXCEPT ![g.ref] =
                                    [old EXCEPT !.current_step = in.current_step]]
                           ELSE heap
                /\ UNCHANGED store
    /\ UNCHANGED active

\* update_workflow_progress up to the await of the redis write; an unknown
\* session or a ValueError from WorkflowStatus(status) ends the call
UpdateWorkflowProgress(sid, in, readOk, writeOk) ==
    /\ MayCall
    /\ LET t == NewId
           g == GetWorkflowState(t, sid, readOk)
           old == IF g.copy # NoObj THEN g.copy ELSE heap[g.ref]
           call == [IdleTask EXCEPT !.kind = "update", !.sid = sid,
                                    !.pushed = in.generated_content,
                                    !.input = in]
       IN  IF g.found /\ StatusOfValue(in.status) # None
           THEN LET new == ApplyUpdate(old, in)
                IN  /\ heap' = [heap EXCEPT ![g.ref] = new]
                    /\ store' = IF writeOk
                                THEN [store EXCEPT ![sid] = to_dict(new)]
                                ELSE store
                    /\ StoreFaults(sid, readOk, TRUE, writeOk)
                    /\ task' = [task EXCEPT ![t] =
                                   [call EXCEPT !.obj = g.ref,
                                                !.pc = "update_stored"]]
           ELSE /\ task' = [task EXCEPT ![t] = [call EXCEPT !.pc = "done"]]
                /\ StoreFaults(sid, readOk, FALSE, writeOk)
                /\ UNCHANGED <<heap, store>>
    /\ UNCHANGED active

\* after the store: self.active_workflows[session_id] = state
UpdateReturn(t) ==
    /\ task[t].kind = "update" /\ task[t].pc = "update_stored"
    /\ active' = [active EXCEPT ![task[t].sid] = task[t].obj]
    /\ task' = [task EXCEPT ![t].pc = "done"]
    /\ UNCHANGED <<heap, store, storeFailed, faults, limits>>

\* ------------------------------------------------------------------------
\* get_workflow_status
\* ------------------------------------------------------------------------
GetWorkflowStatus(sid, readOk) ==
    /\ MayCall
    /\ LET t == NewId
           g == GetWorkflowState(t, sid, readOk)
           state == IF g.copy # NoObj THEN g.copy ELSE heap[g.ref]
       IN  task' = [task EXCEPT ![t] =
                       [IdleTask EXCEPT
                           !.kind = "status", !.sid = sid, !.pc = "done",
                           !.ret = IF g.found THEN "record" ELSE None,
                           !.src = IF ~g.found THEN ""
                                   ELSE IF g.copy # NoObj THEN "redis"
                                   ELSE "memory",
                           !.result = IF g.found THEN to_dict(state) ELSE NoRec]]
    /\ StoreFaults(sid, readOk, FALSE, TRUE)
    /\ UNCHANGED <<heap, active, store>>

\* ------------------------------------------------------------------------
\* regenerate_content
\* ------------------------------------------------------------------------
RegenerableSteps ==
    <<"create_flyer", "create_social_content", "create_whatsapp_message">>

\* variant: every regenerable step is run, whatever the type
SelectedSteps_all(rtype) == RegenerableSteps

\* the steps the `if regeneration_type == ...` chain selects, in its order
SelectedSteps(rtype) ==
    SelectSeq(RegenerableSteps,
              LAMBDA n : \/ rtype = "all"
                         \/ (n = "create_flyer" /\ rtype = "flyer")
                         \/ (n = "create_social_content" /\ rtype = "social")
                         \/ (n = "create_whatsapp_message" /\ rtype = "whatsapp"))

\* variant: the current_step of a completed pipeline
RegeneratedMarker_plain(rtype) == "completed"

\* f"regenerated_{regeneration_type}"
RegeneratedMarker(rtype) ==
    CASE rtype = "flyer" -> "regenerated_flyer"
      [] rtype = "social" -> "regenerated_social"
      [] rtype = "whatsapp" -> "regenerated_whatsapp"
      [] rtype = "all" -> "regenerated_all"

\* run the steps of todo until one awaits its collaborator or raises:
\* [st, todo: the awaiting step and those after it, invoked, raised, exc]
RECURSIVE RunSteps(_, _)
RunSteps(st, todo) ==
    IF todo = << >>
    THEN [st |-> st, todo |-> << >>, invoked |-> << >>, raised |-> FALSE,
          exc |-> NoMessage]
    ELSE LET r == StepBegin(Head(todo), st)
         IN  IF r.raised
             THEN [st |-> r.st, todo |-> << >>, invoked |-> <<Head(todo)>>,
                   raised |-> TRUE, exc |-> r.exc]
             ELSE IF r.awaiting
             THEN [st |-> r.st, todo |-> todo, invoked |-> <<Head(todo)>>,
                   raised |-> FALSE, exc |-> NoMessage]
             ELSE LET rest == RunSteps(r.st, Tail(todo))
                  IN  [rest EXCEPT !.invoked = <<Head(todo)>> \o @]

\* regenerate_content from the end of a step on (e: what that step's end
\* returned): the remaining steps up to the next await; after the last one
\* the COMPLETED marker and the redis write; on an exception the FAILED
\* status and the redis write.  n: failures injected by the calling action
RegenContinue(t, call, ref, e, todo, writeOk, n) ==
    LET r == IF e.raised
             THEN [st |-> e.st, todo |-> << >>, invoked |-> << >>,
                   raised |-> TRUE, exc |-> e.exc]
             ELSE RunSteps(e.st, todo)
        final == IF r.raised
                 THEN [r.st EXCEPT !.status = "FAILED", !.error_message = r.exc]
                 ELSE [r.st EXCEPT !.status = "COMPLETED",
                                   !.current_step = RegeneratedMarker(call.rtype)]
        c == [call EXCEPT !.todo = r.todo, !.invoked = @ \o r.invoked]
    IN  IF r.todo # << >>
        THEN /\ heap' = [heap EXCEPT ![ref] = r.st]
             /\ task' = [task EXCEPT ![t] = [c EXCEPT !.pc = "await"]]
             /\ Fault(n)
             /\ UNCHANGED <<store, storeFailed>>
        ELSE /\ heap' = [heap EXCEPT ![ref] = final]
             /\ task' = [task EXCEPT ![t] =
                            [c EXCEPT !.pc = IF r.raised THEN "regen_failed"
                                             ELSE "regen_stored"]]
             /\ StoreWrite(final, writeOk)
             /\ Fault(n + B(~writeOk))

\* variant: an unknown session gets a fresh state registered
RegenerateContent_create(sid, rtype, prefs, readOk, writeOk) ==
    /\ MayCall
    /\ limits.overlap \/ \A u \in CallsOf("start") : task[u].pc = "done"
    /\ LET t == NewId
           g == GetWorkflowState(t, sid, readOk)
           old == IF g.copy # NoObj THEN g.copy ELSE heap[g.ref]
           call == [IdleTask EXCEPT !.kind = "regen", !.sid = sid, !.rtype = rtype,
                                    !.prefs = prefs]
       IN  IF ~g.found
           THEN /\ task' = [task EXCEPT ![t] =
                               [call EXCEPT !.pc = "done", !.ret = "ValueError"]]
                /\ heap' = [heap EXCEPT ![t] =
                               NewState(sid, "e1", EmptyDict, prefs, UserInfo, Now(t))]
                /\ active' = [active EXCEPT ![sid] = t]
                /\ StoreFaults(sid, readOk, FALSE, writeOk)
                /\ UNCHANGED store
           ELSE /\ RegenContinue(t, [call EXCEPT !.obj = g.ref], g.ref,
                       [st |-> [old EXCEPT
                                   !.content_preferences = DictUpdate(@, prefs),
                                   !.status = "IN_PROGRESS"],
                        raised |-> FALSE, exc |-> NoMessage],
                       SelectedSteps(rtype), writeOk, 0)
                /\ UNCHANGED active

\* regenerate_content is called; an unknown session raises ValueError
RegenerateContent(sid, rtype, prefs, readOk, writeOk) ==
    /\ MayCall
    /\ limits.overlap \/ \A u \in CallsOf("start") : task[u].pc = "done"
    /\ LET t == NewId
           g == GetWorkflowState(t, sid, readOk)
           old == IF g.copy # NoObj THEN g.copy ELSE heap[g.ref]
           call == [IdleTask EXCEPT !.kind = "regen", !.sid = sid, !.rtype = rtype,
                                    !.prefs = prefs]
       IN  IF ~g.found
           THEN /\ task' = [task EXCEPT ![t] =
                               [call EXCEPT !.pc = "done", !.ret = "ValueError"]]
                /\ StoreFaults(sid, readOk, FALSE, writeOk)
                /\ UNCHANGED <<heap, store>>
           ELSE RegenContinue(t, [call EXCEPT !.obj = g.ref], g.ref,
                    [st |-> [old EXCEPT
                                !.content_preferences = DictUpdate(@, prefs),
                                !.status = "IN_PROGRESS"],
                     raised |-> FALSE, exc |-> NoMessage],
                    SelectedSteps(rtype), writeOk, 0)
    /\ UNCHANGED active

\* the awaited collaborator of a regenerated step returns or raises
RegenStepReturn(t, res, writeOk) ==
    /\ task[t].kind = "regen" /\ task[t].pc = "await"
    /\ res \in Outcomes(AwaitedStep(t), Tag(t))
    /\ RegenContinue(t, task[t], task[t].obj,
                     StepEnd(AwaitedStep(t), Obj(t), res),
                     Tail(task[t].todo), writeOk,
                     B(res # Success(AwaitedStep(t), Tag(t))))
    /\ UNCHANGED active

\* after the store: register in active_workflows and notify
RegenNotify(t, post) ==
    /\ task[t].kind = "regen" /\ task[t].pc = "regen_stored"
    /\ post \in NotifyOutcomes
    /\ active' = [active EXCEPT ![task[t].sid] = task[t].obj]
    /\ task' = [task EXCEPT ![t].pc = "regen_notified",
                            ![t].notified = NotifyBackend(t, post)]
    /\ Fault(B(post # "ok"))
    /\ UNCHANGED <<heap, store, storeFailed>>

\* the call ends, after the notification or after the store of the except clause
RegenReturn(t) ==
    /\ task[t].kind = "regen" /\ task[t].pc \in {"regen_notified", "regen_failed"}
    /\ task' = [task EXCEPT ![t].pc = "done"]
    /\ UNCHANGED <<heap, active, store, storeFailed, faults, limits>>

\* ------------------------------------------------------------------------
\* Specification
\* ------------------------------------------------------------------------
Start ==
    \E sid \in limits.sessions, ed \in EventDatas, p \in PreferenceInputs, w \in BOOLEAN :
        StartWorkflow(sid, ed, p, w)

Pipeline ==
    \E t \in TaskIds :
        \/ StartReturn(t)
        \/ RunNode(t)
        \/ \E res \in Outcomes(AwaitedStep(t), Tag(t)) : StepReturn(t, res)
        \/ \E w \in BOOLEAN : ExecComplete(t, w)
        \/ \E post \in NotifyOutcomes : ExecCompleteNotify(t, post)
        \/ \E w \in BOOLEAN : ExecFail(t, w)
        \/ \E post \in NotifyOutcomes : ExecFailNotify(t, post)
        \/ ExecFinally(t)

Cancel ==
    \/ \E sid \in limits.sessions, r \in BOOLEAN, w \in BOOLEAN : CancelWorkflow(sid, r, w)
    \/ \E t \in TaskIds : CancelReturn(t)

Update ==
    \/ \E sid \in limits.sessions, in \in UpdateInputs, r \in BOOLEAN, w \in BOOLEAN :
          UpdateWorkflowProgress(sid, in, r, w)
    \/ \E t \in TaskIds : UpdateReturn(t)

Regenerate ==
    \/ \E sid \in limits.sessions, ty \in RegenerationTypes, p \in PreferenceOverrides,
          r \in BOOLEAN, w \in BOOLEAN : RegenerateContent(sid, ty, p, r, w)
    \/ \E t \in TaskIds :
          \/ \E res \in Outcomes(AwaitedStep(t), Tag(t)), w \in BOOLEAN :
                RegenStepReturn(t, res, w)
          \/ \E post \in NotifyOutcomes : RegenNotify(t, post)
          \/ RegenReturn(t)

Status ==
    \E sid \in limits.sessions, r \in BOOLEAN : GetWorkflowStatus(sid, r)

\* every call, on one run; regenerate_content is called on finished runs
Next == Start \/ Pipeline \/ Cancel \/ Update \/ Regenerate \/ Status

Spec == Init /\ [][Next]_vars

\* one run of the main pipeline, observed by status queries
InitRun ==
    /\ InitState
    /\ limits = [calls |-> MaxCalls, starts |-> 1, faults |-> MaxFaults + 1,
                 overlap |-> FALSE, sessions |-> {"s1"}]

NextRun == Start \/ Pipeline \/ Status

SpecRun == InitRun /\ [][NextRun]_vars

\* the same, the event loop resuming every task that can go on and every
\* awaited collaborator, store and notifier call returning
SpecRunFair == SpecRun /\ WF_vars(Pipeline)

\* one run with cancellations and progress pushes
InitCancel ==
    /\ InitState
    /\ limits = [calls |-> MaxCalls + 2, starts |-> 1, faults |-> 0,
                 overlap |-> FALSE, sessions |-> {"s1"}]

NextCancel == Start \/ Pipeline \/ Cancel \/ Update

SpecCancel == InitCancel /\ [][NextCancel]_vars

\* every call, regenerate_content also while the pipeline runs
InitOverlap ==
    /\ InitState
    /\ limits = [calls |-> MaxCalls, starts |-> 1, faults |-> 0,
                 overlap |-> TRUE, sessions |-> {"s1"}]

SpecOverlap == InitOverlap /\ [][Next]_vars

\* the paths that mutate a run: a run, then two more calls on its session,
\* the store reliable
InitMutate ==
    /\ InitState
    /\ limits = [calls |-> MaxCalls + 1, starts |-> 1, faults |-> 0,
                 overlap |-> FALSE, sessions |-> {"s1"}]

NextMutate == Start \/ Pipeline \/ Update \/ Regenerate

SpecMutate == InitMutate /\ [][NextMutate]_vars

\* start_workflow called twice, the store reliable
InitTwice ==
    /\ InitState
    /\ limits = [calls |-> MaxCalls, starts |-> 2, faults |-> 0,
                 overlap |-> FALSE, sessions |-> {"s1"}]

NextTwice == Start \/ Pipeline

SpecTwice == InitTwice /\ [][NextTwice]_vars

\* calls on two session_ids: two runs, or a run and another call
InitIsolate ==
    /\ InitState
    /\ limits = [calls |-> MaxCalls, starts |-> 2, faults |-> 0,
                 overlap |-> FALSE, sessions |-> Sessions]

NextIsolate == Start \/ Pipeline \/ Cancel \/ Update \/ Regenerate

SpecIsolate == InitIsolate /\ [][NextIsolate]_vars

\* serialization on its own: any WorkflowState is written to redis by
\* _store_workflow_state and rebuilt by _get_workflow_state
Times ==
    {[day |-> "2026-01-10", minute |-> 600, micro |-> 0],
     [day |-> "2026-01-10", minute |-> 600, micro |-> 250000]}

StateSamples ==
    {[NewState("s1", "e1", ed, p, UserInfo, now) EXCEPT
          !.status = status,
          !.current_step = IF status = "COMPLETED" THEN "completed" ELSE @,
          !.completed_steps = IF status = "COMPLETED" THEN Nodes ELSE @,
          !.generated_content = gc,
          !.estimated_completion = est,
          !.error_message = msg] :
        ed \in {[title |-> "Gala", description |-> "Annual gala",
                 start_date |-> "2026-01-10"]},
        p \in {[flyer_style |-> "modern"]},
        now \in Times,
        status \in StatusNames,
        gc \in {EmptyDict, [flyer_url |-> "v1"]},
        est \in {NoTime} \cup {PlusMinutes(x, 3) : x \in Times},
        msg \in {NoMessage, <<"pushed error">>}}

InitRoundTrip ==
    /\ heap \in {[t \in TaskIds |-> IF t = 1 THEN st ELSE NoObj] : st \in StateSamples}
    /\ active = [s \in Sessions |-> 0]
    /\ store = [s \in Sessions |-> NoRec]
    /\ task = [t \in TaskIds |-> IdleTask]
    /\ storeFailed = [s \in Sessions |-> FALSE]
    /\ faults = 0
    /\ limits = [calls |-> MaxCalls, starts |-> 1, faults |-> MaxFaults,
                 overlap |-> FALSE, sessions |-> {"s1"}]

\* _store_workflow_state(state)
RoundTripStore ==
    /\ store[heap[1].session_id] = NoRec
    /\ StoreWrite(heap[1], TRUE)
    /\ UNCHANGED <<heap, active, task, faults, limits>>

\* _get_workflow_state(session_id), the id not being in active_workflows
RoundTripLoad ==
    /\ store[heap[1].session_id] # NoRec /\ heap[2] = NoObj
    /\ LET g == GetWorkflowState(2, heap[1].session_id, TRUE)
       IN  g.found /\ heap' = [heap EXCEPT ![2] = g.copy]
    /\ UNCHANGED <<active, store, task, storeFailed, faults, limits>>

NextRoundTrip == RoundTripStore \/ RoundTripLoad

SpecRoundTrip == InitRoundTrip /\ [][NextRoundTrip]_vars


\* ------------------------------------------------------------------------
\* The agents of the repository behind the steps' collaborator calls
\* ------------------------------------------------------------------------
\* the keyword arguments a step passes to its agent
CallKeywords(name) ==
    CASE name = "create_flyer" -> {"event_data", "preferences", "llm"}
      [] name = "create_social_content" ->
            {"event_data", "preferences", "flyer_url", "llm"}
      [] name = "create_whatsapp_message" -> {"event_data", "preferences", "llm"}
      [] name = "setup_google_drive" -> {"event_data", "generated_content"}

\* the parameters the agent's method declares (self aside)
AgentParameters(name) ==
    CASE name = "create_flyer" -> {"event_data", "preferences", "llm"}
      [] name = "create_social_content" -> {"event_data", "preferences", "llm"}
      [] name = "create_whatsapp_message" -> {"event_data", "preferences", "llm"}
      [] name = "setup_google_drive" -> {"event_data", "generated_content"}

\* what the method returns when every call it makes itself succeeds
AgentResult(name, v) ==
    CASE name = "create_flyer" ->
            [flyer_url |-> v, flyer_render_id |-> v, flyer_template_id |-> v,
             design_notes |-> v, flyer_format |-> v, created_at |-> v]
      [] name = "create_social_content" ->
            [instagram |-> v, linkedin |-> v, facebook |-> v]
      [] name = "create_whatsapp_message" ->
            [message |-> v, variations |-> v, broadcast_suggestions |-> v,
             follow_up_messages |-> v, message_type |-> v,
             character_count |-> v, created_at |-> v]
      [] name = "setup_google_drive" ->
            [folder_id |-> v, folder_url |-> v, folder_name |-> v,
             subfolders |-> v, uploaded_files |-> v, shared_documents |-> v,
             organization_complete |-> v, created_at |-> v]

\* the call as Python binds it: a keyword the method does not declare raises
\* TypeError before the method's body runs
AgentCall(name, v) ==
    IF CallKeywords(name) \subseteq AgentParameters(name)
    THEN Returned(AgentResult(name, v))
    ELSE Raised

\* the collaborator call of the running node answered by the agent
AgentStepReturn(t) ==
    /\ task[t].kind = "start" /\ task[t].pc = "await"
    /\ LET res == AgentCall(AwaitedStep(t), Tag(t))
           r == StepEnd(task[t].node, Obj(t), res)
       IN  /\ heap' = [heap EXCEPT ![task[t].obj] = r.st]
           /\ IF r.raised
              THEN task' = [task EXCEPT ![t].pc = "raised", ![t].exc = r.exc]
              ELSE AfterNode(t, task[t].node, task[t].invoked)
    /\ UNCHANGED <<active, store, storeFailed, faults, limits>>

AgentPipeline ==
    \E t \in TaskIds :
        \/ StartReturn(t)
        \/ RunNode(t)
        \/ AgentStepReturn(t)
        \/ \E w \in BOOLEAN : ExecComplete(t, w)
        \/ \E post \in NotifyOutcomes : ExecCompleteNotify(t, post)
        \/ \E w \in BOOLEAN : ExecFail(t, w)
        \/ \E post \in NotifyOutcomes : ExecFailNotify(t, post)
        \/ ExecFinally(t)

\* runs whose collaborators are the repository's agents, every call the
\* agents make succeeding, the store reliable
InitAgents ==
    /\ InitState
    /\ limits = [calls |-> MaxCalls, starts |-> 2, faults |-> 0,
                 overlap |-> FALSE, sessions |-> {"s1"}]

NextAgents == Start \/ AgentPipeline

SpecAgents == InitAgents /\ [][NextAgents]_vars


\* ------------------------------------------------------------------------
\* FlyerAgent._poll_templated_render_status
\* ------------------------------------------------------------------------
\* the largest max_attempts tried (the method's default is 15)
MaxAttempts == 3

\* what one GET /render/:id may come to: the request raises, or a response
\* arrives with a status code and a body that is not JSON (its text readable
\* or not), JSON that is no object, or a JSON object
PollResponses ==
    {[kind |-> "exception", code |-> 0, body |-> "", status |-> None, url |-> None],
     [kind |-> "response", code |-> 200, body |-> "invalid", status |-> None,
      url |-> None],
     [kind |-> "response", code |-> 200, body |-> "unreadable", status |-> None,
      url |-> None],
     [kind |-> "response", code |-> 200, body |-> "list", status |-> None,
      url |-> None],
     [kind |-> "response", code |-> 200, body |-> "dict", status |-> "COMPLETED",
      url |-> "https://img"],
     [kind |-> "response", code |-> 200, body |-> "dict", status |-> "COMPLETED",
      url |-> None],
     [kind |-> "response", code |-> 200, body |-> "dict", status |-> "FAILED",
      url |-> None],
     [kind |-> "response", code |-> 200, body |-> "dict", status |-> "PENDING",
      url |-> None],
     [kind |-> "response", code |-> 200, body |-> "dict", status |-> "QUEUED",
      url |-> None],
     [kind |-> "response", code |-> 200, body |-> "dict", status |-> None,
      url |-> None],
     [kind |-> "response", code |-> 500, body |-> "dict", status |-> "FAILED",
      url |-> None],
     [kind |-> "response", code |-> 500, body |-> "dict", status |-> "COMPLETED",
      url |-> "https://img"]}

PollSuccess(url) == [flyer_url |-> url, flyer_render_id |-> "r1"]
PollFailed == [error |-> "render failed", render_id |-> "r1"]
PollTimedOut == [error |-> "timed out after polling", render_id |-> "r1"]
PollNoSession == [error |-> "HTTP session not initialized for polling."]

\* the body of the try block of one attempt:
\* out: "return" (with result), "continue" (after the sleep of the invalid
\* JSON branch), "fallthrough" (to the end of the loop body) or "exception"
PollTry(resp) ==
    IF resp.kind = "exception" THEN [out |-> "exception", result |-> NoRec]
    ELSE IF resp.body = "invalid" THEN [out |-> "continue", result |-> NoRec]
    ELSE IF resp.body = "unreadable" THEN [out |-> "exception", result |-> NoRec]
    ELSE IF resp.code = 200
    THEN IF resp.body # "dict" THEN [out |-> "exception", result |-> NoRec]
         ELSE IF resp.status = "COMPLETED" /\ Truthy(resp.url)
         THEN [out |-> "return", result |-> PollSuccess(resp.url)]
         ELSE IF resp.status = "FAILED"
         THEN [out |-> "return", result |-> PollFailed]
         ELSE [out |-> "fallthrough", result |-> NoRec]
    ELSE [out |-> "fallthrough", result |-> NoRec]

\* variant: the exception of an attempt is not caught
PollExcept_reraise(o) == o

\* except Exception: logged, the loop goes on
PollExcept(o) == IF o.out = "exception" THEN [o EXCEPT !.out = "fallthrough"] ELSE o

\* the frame of the call, kept as object 1
PollFrame(max_attempts, session) ==
    [pc |-> "called", max_attempts |-> max_attempts, session |-> session,
     attempt |-> 0, responses |-> << >>, sleeps |-> 0, result |-> NoRec]

\* the method is reached from _create_templated_flyer only, inside the POST
\* made on self.session: the session is set
InitPoll ==
    /\ heap \in {[t \in TaskIds |-> IF t = 1 THEN PollFrame(m, TRUE) ELSE NoObj] :
                    m \in 1..MaxAttempts}
    /\ active = [s \in Sessions |-> 0]
    /\ store = [s \in Sessions |-> NoRec]
    /\ task = [t \in TaskIds |-> IdleTask]
    /\ storeFailed = [s \in Sessions |-> FALSE]
    /\ faults = 0
    /\ limits = [calls |-> MaxCalls, starts |-> 1, faults |-> MaxFaults,
                 overlap |-> FALSE, sessions |-> {"s1"}]

PollUnchanged == UNCHANGED <<active, store, task, storeFailed, faults, limits>>

\* the call up to the loop: without a session it returns at once
PollCall ==
    /\ heap[1].pc = "called"
    /\ heap' = [heap EXCEPT ![1] =
                   IF ~heap[1].session
                   THEN [@ EXCEPT !.pc = "returned", !.result = PollNoSession]
                   ELSE [@ EXCEPT !.pc = "loop"]]
    /\ PollUnchanged

\* one attempt: the GET, the handling of what it comes to, and the choice
\* between returning, sleeping and going on
PollAttempt(resp) ==
    /\ heap[1].pc = "loop" /\ heap[1].attempt < heap[1].max_attempts
    /\ LET f == [heap[1] EXCEPT !.responses = Append(@, resp)]
           o == PollExcept(PollTry(resp))
           last == ~(f.attempt < f.max_attempts - 1)
       IN  heap' = [heap EXCEPT ![1] =
               CASE o.out = "return" ->
                        [f EXCEPT !.pc = "returned", !.result = o.result]
                 [] o.out = "exception" -> [f EXCEPT !.pc = "raised"]
                 [] o.out = "continue" -> [f EXCEPT !.pc = "sleep"]
                 [] o.out = "fallthrough" ->
                        IF last THEN [f EXCEPT !.pc = "loop", !.attempt = @ + 1]
                        ELSE [f EXCEPT !.pc = "sleep"]]
    /\ PollUnchanged

\* asyncio.sleep(delay_seconds) is over: the next attempt
PollSleep ==
    /\ heap[1].pc = "sleep"
    /\ heap' = [heap EXCEPT ![1] = [@ EXCEPT !.pc = "loop", !.attempt = @ + 1,
                                              !.sleeps = @ + 1]]
    /\ PollUnchanged

\* range(max_attempts) is used up
PollTimeout ==
    /\ heap[1].pc = "loop" /\ ~(heap[1].attempt < heap[1].max_attempts)
    /\ heap' = [heap EXCEPT ![1] = [@ EXCEPT !.pc = "returned",
                                              !.result = PollTimedOut]]
    /\ PollUnchanged

NextPoll ==
    \/ PollCall
    \/ \E resp \in PollResponses : PollAttempt(resp)
    \/ PollSleep
    \/ PollTimeout

SpecPoll == InitPoll /\ [][NextPoll]_vars

\* every request is answered or fails within the session's timeout and
\* every sleep ends: the event loop resumes the coroutine
SpecPollFair == SpecPoll /\ WF_vars(NextPoll)

\* ------------------------------------------------------------------------
\* Properties
\* ------------------------------------------------------------------------
\* the runs: one per start_workflow call
Runs == CallsOf("start")

\* no cancel_workflow, regenerate_content or update_workflow_progress call
\* has been made: run t is touched by its own pipeline only
Alone(t) == \A u \in TaskIds \ {t} : task[u].kind \in {"idle", "status"}

\* the pipeline of run t is past its terminal store
Ended(t) == task[t].pc \in {"complete_stored", "fail_stored", "notified", "done"}

\* no call is in flight
Quiescent == \A t \in TaskIds : task[t].pc \in {"idle", "done"}

\* a state as start_workflow creates it, and its stored record
InitialShape(st) ==
    /\ st.status = "IN_PROGRESS"
    /\ st.current_step = "validate_input"
    /\ st.completed_steps = << >>
    /\ st.failed_steps = << >>
    /\ st.generated_content = EmptyDict

InitialRecord(rec) ==
    /\ rec # NoRec
    /\ rec.status = "in_progress"
    /\ rec.current_step = "validate_input"
    /\ rec.completed_steps = << >>
    /\ rec.failed_steps = << >>
    /\ rec.generated_content = EmptyDict

\* C1: the step of start_workflow that creates a run leaves the created state
\* (the object the call returns), the active_workflows entry and, when the
\* write is not a failed one, the stored record with status IN_PROGRESS,
\* current_step "validate_input" and empty completed_steps, failed_steps and
\* generated_content; and the first pipeline step is invoked only after
\* start_workflow has returned, so after the insertion and the write.
C1_Created(t) ==
    (task[t].kind = "idle" /\ task'[t].kind = "start") =>
        LET sid == task'[t].sid
        IN  /\ task'[t].obj = t
            /\ InitialShape(heap'[t])
            /\ active'[sid] = t
            /\ (faults' = faults =>
                    store'[sid] = to_dict(heap'[t]) /\ InitialRecord(store'[sid]))
            /\ task'[t].invoked = << >>

C1_FirstStep(t) ==
    (task[t].kind = "start" /\ task[t].invoked = << >> /\ task'[t].invoked # << >>) =>
        /\ task[t].pc = "node"
        /\ task[t].ret = "state"
        /\ task'[t].invoked = <<"validate_input">>

C1_StartCreatesRun == [][\A t \in TaskIds : C1_Created(t) /\ C1_FirstStep(t)]_vars

C1_Witness ==
    \E t \in Runs :
        /\ task[t].pc = "node" /\ task[t].ret = "state" /\ task[t].invoked = << >>
        /\ active[task[t].sid] = t
        /\ InitialShape(Obj(t))
        /\ store[task[t].sid] = to_dict(Obj(t))

\* C2: when validate_input raised and no cancel, regenerate or update call
\* was made, validate_input is the only step invoked, completed_steps and
\* generated_content are empty, failed_steps contains "validate_input", and
\* from the terminal store on the status is FAILED.
C2_ValidateRaiseFailsRun ==
    \A t \in Runs :
        (task[t].exc # NoMessage /\ Alone(t)) =>
            /\ task[t].invoked = <<"validate_input">>
            /\ Obj(t).completed_steps = << >>
            /\ Obj(t).generated_content = EmptyDict
            /\ Contains(Obj(t).failed_steps, "validate_input")
            /\ task[t].pc \in {"raised", "fail_stored", "notified", "done"}
            /\ (Ended(t) => Obj(t).status = "FAILED")

C2_Witness ==
    \E t \in Runs :
        /\ task[t].exc # NoMessage /\ task[t].pc = "done" /\ Alone(t)
        /\ Obj(t).status = "FAILED"

\* C3: only validate_input propagates an exception to the run.  A run whose
\* pipeline raised invoked validate_input alone and ends FAILED; a run whose
\* pipeline did not raise invoked every step in registry order, whatever the
\* later steps' collaborators did, and ends COMPLETED (no cancel, regenerate
\* or update call made).
C3_OnlyValidateFailsRun ==
    \A t \in Runs :
        /\ (task[t].pc = "raised" => task[t].node = "validate_input")
        /\ (task[t].exc # NoMessage => task[t].invoked = <<"validate_input">>)
        /\ ((Ended(t) /\ task[t].exc = NoMessage) => task[t].invoked = Nodes)
        /\ ((Ended(t) /\ Alone(t)) =>
                /\ (Obj(t).status = "FAILED" <=> task[t].exc # NoMessage)
                /\ (Obj(t).status = "COMPLETED" <=> task[t].exc = NoMessage))

C3_Witness ==
    \E t \in Runs :
        /\ task[t].pc = "done" /\ Alone(t)
        /\ Obj(t).status = "COMPLETED"
        /\ task[t].invoked = Nodes
        /\ Contains(Obj(t).failed_steps, "create_flyer")
        /\ Contains(Obj(t).failed_steps, "setup_google_drive")

\* the "*_error" keys the steps write into generated_content, by step
StepErrorKeys(n) ==
    CASE n = "create_flyer" -> {"flyer_error"}
      [] n = "create_social_content" -> {"social_media_error"}
      [] n = "create_whatsapp_message" -> {"whatsapp_message_error"}
      [] OTHER -> {}

\* C4: every step other than validate_input that is in failed_steps has an
\* error artifact of its own in generated_content.
C4_FailedStepHasErrorArtifact ==
    \A t \in Runs :
        Alone(t) =>
            \A n \in AwaitingSteps :
                Contains(Obj(t).failed_steps, n) =>
                    \E k \in StepErrorKeys(n) : k \in DOMAIN Obj(t).generated_content

\* C5: the steps a run has invoked are a prefix of the registry order (so
\* each at most once and one after the other), the step whose collaborator
\* call is awaited is the last one invoked, the step to run next is the
\* successor of the last one invoked, and while a step awaits its
\* collaborator current_step names it (no cancel, regenerate or update call
\* made).
C5_StepsInRegistryOrder ==
    \A t \in Runs :
        /\ IsPrefix(task[t].invoked, Nodes)
        /\ (task[t].pc = "await" =>
                /\ task[t].invoked # << >>
                /\ task[t].invoked[Len(task[t].invoked)] = task[t].node)
        /\ (task[t].pc = "node" => task[t].node = Nodes[Len(task[t].invoked) + 1])
        /\ ((task[t].pc = "await" /\ Alone(t)) => Obj(t).current_step = task[t].node)

C5_Witness ==
    \E t \in Runs :
        /\ task[t].pc = "await" /\ task[t].node = "setup_google_drive"
        /\ task[t].invoked = SubSeq(Nodes, 1, 5)
        /\ Obj(t).current_step = "setup_google_drive"

\* the lists and artifacts of a state are the ones of the stored record
StoreReflects(st, rec) ==
    /\ rec # NoRec
    /\ rec.completed_steps = st.completed_steps
    /\ rec.failed_steps = st.failed_steps
    /\ rec.generated_content = st.generated_content

StoredStatus(sid) == IF store[sid] = NoRec THEN None ELSE store[sid].status

\* cancel_workflow has returned True for the session
Cancelled(sid) ==
    \E c \in CallsOf("cancel") : task[c].sid = sid /\ task[c].ret = "True"

\* only start, cancel and status calls have been made
OnlyCancels == \A u \in TaskIds : task[u].kind \in {"idle", "start", "cancel", "status"}

\* C7: a run for which cancel_workflow has returned True is not COMPLETED,
\* in memory or in the store, once its pipeline has finished (no regenerate
\* or update call made).
C7_CancelledNeverCompleted ==
    \A t \in Runs :
        (Cancelled(task[t].sid) /\ OnlyCancels /\ task[t].pc = "done") =>
            /\ Obj(t).status # "COMPLETED"
            /\ StoredStatus(task[t].sid) # "completed"

\* C8: cancel_workflow returns True at most once per session.
C8_CancelTrueAtMostOnce ==
    \A sid \in Sessions :
        Cardinality({c \in CallsOf("cancel") :
                        task[c].sid = sid /\ task[c].ret = "True"}) <= 1

\* C9: when no call is in flight, no run in active_workflows is COMPLETED or
\* FAILED.
C9_NoTerminalRunInActiveSet ==
    Quiescent =>
        \A sid \in Sessions :
            active[sid] # 0 => heap[active[sid]].status \notin {"COMPLETED", "FAILED"}

\* the status queries made after start_workflow was called for their session
QueriesOfRuns ==
    {q \in CallsOf("status") : \E t \in Runs : t < q /\ task[t].sid = task[q].sid}

\* a record as get_workflow_status returns it for session sid
WellFormed(rec, sid) ==
    /\ rec # NoRec
    /\ rec.session_id = sid
    /\ rec.status \in {WorkflowStatus[n] : n \in StatusNames}
    /\ rec.progress_percentage \in 0..100
    /\ \A i \in 1..Len(rec.completed_steps) : rec.completed_steps[i] \in NodeSet
    /\ \A i \in 1..Len(rec.failed_steps) : rec.failed_steps[i] \in NodeSet

ReportedRecords ==
    ({store[sid] : sid \in Sessions} \cup {task[q].result : q \in CallsOf("status")})
        \ {NoRec}

\* p is min(100, floor(100 * n / 8))
IsProgressOf(p, n) ==
    /\ p \in 0..100
    /\ IF n >= 8 THEN p = 100 ELSE p * 8 <= 100 * n /\ 100 * n < (p + 1) * 8

\* C11: every reported progress_percentage, and calculate_progress() of every
\* state object, is min(100, floor(100 * len(completed_steps) / 8)), an
\* integer in 0..100, also when completed_steps holds more than 8 entries.
C11_ProgressFormula ==
    /\ \A rec \in ReportedRecords :
           IsProgressOf(rec.progress_percentage, Len(rec.completed_steps))
    /\ \A t \in TaskIds :
           heap[t] # NoObj =>
               IsProgressOf(calculate_progress(heap[t]), Len(heap[t].completed_steps))

C11_Witness ==
    \E rec \in ReportedRecords :
        Len(rec.completed_steps) > 8 /\ rec.progress_percentage = 100

\* what get_workflow_status(sid) returns when asked now (its read succeeding)
StatusView(sid) ==
    IF active[sid] # 0 THEN to_dict(heap[active[sid]])
    ELSE IF store[sid] # NoRec THEN to_dict(from_dict(store[sid]))
    ELSE NoRec

\* C12: the progress percentage a status query reports for a session never
\* decreases from one state to the next (no store read or write has failed).
C12_ProgressNeverDecreases ==
    [][\A sid \in Sessions :
          (StatusView(sid) # NoRec /\ StatusView(sid)' # NoRec /\ ~storeFailed'[sid]) =>
              StatusView(sid)'.progress_percentage >= StatusView(sid).progress_percentage]_vars

\* the generated_content keys a step writes
OwnedKeys(n) ==
    CASE n = "create_flyer" ->
            {"flyer_url", "flyer_render_id", "flyer_template_id", "flyer_format",
             "design_notes", "flyer_error"}
      [] n = "create_social_content" ->
            {"instagram_caption", "linkedin_caption", "twitter_caption",
             "social_media_error"}
      [] n = "create_whatsapp_message" -> {"whatsapp_message", "whatsapp_message_error"}
      [] OTHER -> {}

\* the keys owned by the steps a regeneration type names
RegenKeys(rtype) ==
    CASE rtype = "flyer" -> OwnedKeys("create_flyer")
      [] rtype = "social" -> OwnedKeys("create_social_content")
      [] rtype = "whatsapp" -> OwnedKeys("create_whatsapp_message")
      [] OTHER -> OwnedKeys("create_flyer") \cup OwnedKeys("create_social_content")
                     \cup OwnedKeys("create_whatsapp_message")

\* dicts d and e agree outside keys
SameOutside(d, e, keys) ==
    /\ DOMAIN d \ keys = DOMAIN e \ keys
    /\ \A k \in DOMAIN d \ keys : d[k] = e[k]

\* the state a call of regenerate_content for sid loads
Loaded(sid) == IF active[sid] # 0 THEN heap[active[sid]] ELSE from_dict(store[sid])

\* C13: every step of a regenerate_content call on an existing run leaves
\* unchanged, in the state it works on, the generated_content keys that the
\* steps named by its regeneration type do not own, and session_id,
\* event_id, event_data and start_time.
C13_RegenFrame ==
    [][\A t \in TaskIds :
          (task'[t] # task[t] /\ task'[t].kind = "regen" /\ task'[t].obj # 0) =>
              LET before == IF task[t].kind = "idle" THEN Loaded(task'[t].sid)
                            ELSE Obj(t)
                  after == heap'[task'[t].obj]
              IN  /\ SameOutside(before.generated_content, after.generated_content,
                                 RegenKeys(task'[t].rtype))
                  /\ after.session_id = before.session_id
                  /\ after.event_id = before.event_id
                  /\ after.event_data = before.event_data
                  /\ after.start_time = before.start_time]_vars

C13_Witness ==
    \E t \in CallsOf("regen") :
        /\ task[t].pc = "done" /\ task[t].rtype = "whatsapp" /\ task[t].obj # 0
        /\ Get(Obj(t).generated_content, "whatsapp_message") = Tag(t)
        /\ Get(Obj(t).generated_content, "flyer_url") \notin {None, Tag(t)}
        /\ Get(Obj(t).generated_content, "google_drive_folder_id") \notin {None, Tag(t)}

\* no cancel_workflow, update_workflow_progress or other regenerate_content
\* call has been made next to call t
RegenAlone(t) ==
    \A u \in TaskIds \ {t} : task[u].kind \in {"idle", "status", "start"}

\* the step functions a regeneration type stands for, in registry order
ExpectedSteps(rtype) ==
    CASE rtype = "flyer" -> <<"create_flyer">>
      [] rtype = "social" -> <<"create_social_content">>
      [] rtype = "whatsapp" -> <<"create_whatsapp_message">>
      [] rtype = "all" ->
            <<"create_flyer", "create_social_content", "create_whatsapp_message">>

\* C14 (call): regenerate_content on an existing run merges the overrides
\* over the loaded preferences.
C14_Merged(t) ==
    (task[t].kind = "idle" /\ task'[t].kind = "regen" /\ task'[t].obj # 0) =>
        heap'[task'[t].obj].content_preferences =
            DictUpdate(Loaded(task'[t].sid).content_preferences, task'[t].prefs)

\* C14 (course): the steps invoked so far are a prefix of the selected ones;
\* the notifier is not invoked before the state was persisted; at the end
\* the selected steps were invoked in registry order, the status is
\* COMPLETED, current_step is the regeneration marker, the overrides are in
\* content_preferences and the notifier was invoked once, with that status.
C14_Course(t) ==
    (task[t].kind = "regen" /\ task[t].obj # 0 /\ RegenAlone(t)) =>
        /\ IsPrefix(task[t].invoked, ExpectedSteps(task[t].rtype))
        /\ (task[t].pc \in {"await", "regen_stored"} => task[t].notified = << >>)
        /\ (task[t].pc = "regen_stored" =>
                \/ store[task[t].sid] = to_dict(Obj(t))
                \/ storeFailed[task[t].sid])
        /\ (task[t].pc \in {"regen_stored", "regen_notified", "done"} =>
                /\ task[t].invoked = ExpectedSteps(task[t].rtype)
                /\ Obj(t).status = "COMPLETED"
                /\ Obj(t).current_step = RegeneratedMarker(task[t].rtype)
                /\ \A k \in DOMAIN task[t].prefs :
                       Get(Obj(t).content_preferences, k) = task[t].prefs[k])
        /\ (task[t].pc \in {"regen_notified", "done"} =>
                /\ Len(task[t].notified) = 1
                /\ (task[t].notified[1].outcome # "skipped" =>
                        /\ task[t].notified[1].payload.status = "COMPLETED"
                        /\ task[t].notified[1].payload.current_step \in
                               {"regenerated_flyer", "regenerated_social",
                                "regenerated_whatsapp", "regenerated_all"}))

C15_RegenUnknownSession ==
    [][\A t \in TaskIds :
          (/\ task[t].kind = "idle" /\ task'[t].kind = "regen"
           /\ active[task'[t].sid] = 0 /\ store[task'[t].sid] = NoRec) =>
              /\ task'[t].ret = "ValueError" /\ task'[t].pc = "done"
              /\ task'[t].obj = 0
              /\ task'[t].invoked = << >> /\ task'[t].notified = << >>
              /\ UNCHANGED <<heap, store, active>>]_vars

C15_Witness ==
    \E t \in CallsOf("regen") :
        /\ task[t].ret = "ValueError" /\ task[t].pc = "done"
        /\ store[task[t].sid] = NoRec /\ active[task[t].sid] = 0
        /\ ~storeFailed[task[t].sid]

TerminalStatuses == {"COMPLETED", "FAILED", "CANCELLED"}

\* C16: the status of a state object that is COMPLETED, FAILED or CANCELLED
\* never changes, and a state object becomes CANCELLED from IN_PROGRESS only.
C16_StatusOnlyForward ==
    [][\A t \in TaskIds :
          (heap[t] # NoObj /\ heap'[t] # NoObj) =>
              /\ (heap[t].status \in TerminalStatuses =>
                      heap'[t].status = heap[t].status)
              /\ ((heap'[t].status = "CANCELLED" /\ heap[t].status # "CANCELLED") =>
                      heap[t].status = "IN_PROGRESS")]_vars

\* C17 (step): the step in which task t invokes the notifier, whatever its
\* outcome, and the step in which the task resumes after it change no state
\* object and no stored record; the invocation is recorded once and the
\* task goes on as after a successful notification.
C17_Step(t) ==
    /\ (task'[t].notified # task[t].notified =>
            /\ heap' = heap /\ store' = store
            /\ Len(task'[t].notified) = Len(task[t].notified) + 1
            /\ task'[t].exc = task[t].exc
            /\ task'[t].pc \in {"notified", "regen_notified"})
    /\ ((task[t].pc \in {"notified", "regen_notified"} /\ task'[t] # task[t]) =>
            /\ heap' = heap /\ store' = store
            /\ task'[t].pc = "done"
            /\ task'[t].notified = task[t].notified)

\* C17 (result): a call invokes the notifier at most once, and a pipeline
\* whose notification failed or was skipped ends as any other: COMPLETED or
\* FAILED according to validate_input, and evicted.
C17_Result(t) ==
    /\ Len(task[t].notified) <= 1
    /\ (/\ task[t].kind = "start" /\ task[t].pc = "done" /\ Alone(t)
        /\ task[t].notified[1].outcome # "ok") =>
            /\ Obj(t).status = IF task[t].exc = NoMessage THEN "COMPLETED" ELSE "FAILED"
            /\ active[task[t].sid] = 0

\* C17: a failed or skipped notification changes no field of the state,
\* raises nothing into the caller and is not retried.
C17_NotifyFailureHarmless ==
    [][\A t \in TaskIds : C17_Step(t) /\ C17_Result(t)']_vars

C17_Witness ==
    \E t \in Runs :
        /\ task[t].pc = "done" /\ Alone(t)
        /\ task[t].notified[1].outcome = "error"
        /\ Obj(t).status = "COMPLETED"

\* the pipeline of run t has ended as it must: COMPLETED or FAILED in memory,
\* the notifier invoked once, with that status when it posted, and the run
\* out of active_workflows
RunEnded(t) ==
    /\ task[t].kind = "start" /\ task[t].pc = "done"
    /\ Obj(t).status \in {"COMPLETED", "FAILED"}
    /\ Len(task[t].notified) = 1
    /\ (task[t].notified[1].outcome # "skipped" =>
            task[t].notified[1].payload.status = Obj(t).status)
    /\ active[task[t].sid] = 0

\* C18: whatever store writes and notifications fail, every started run
\* whose awaited calls return eventually has status COMPLETED or FAILED in
\* memory, the notifier invoked for it, and no active_workflows entry.
C18_RunTerminates ==
    \A t \in TaskIds : (task[t].kind = "start") ~> RunEnded(t)

C18_Witness ==
    \E t \in Runs :
        /\ RunEnded(t)
        /\ storeFailed[task[t].sid] /\ store[task[t].sid] = NoRec
        /\ task[t].notified[1].outcome = "error"

\* the step changes the status of run t's state from a non-terminal one to
\* COMPLETED or FAILED
TerminalTransition(t) ==
    /\ task[t].kind = "start" /\ task'[t].kind = "start"
    /\ heap[task[t].obj].status \notin {"COMPLETED", "FAILED"}
    /\ heap'[task[t].obj].status \in {"COMPLETED", "FAILED"}

\* a terminal transition is to COMPLETED with current_step "completed" after
\* all eight steps ran, or to FAILED with error_message set and current_step
\* "error"
C19_TransitionShape(t) ==
    TerminalTransition(t) =>
        LET st == heap'[task[t].obj]
        IN  \/ /\ st.status = "COMPLETED"
               /\ st.current_step = "completed"
               /\ task'[t].invoked = Nodes
            \/ /\ st.status = "FAILED"
               /\ st.error_message # NoMessage
               /\ st.current_step = "error"

\* a terminal status of the running pipeline never changes again, and a
\* pipeline that is done has made the transition
C19_Once(t) ==
    /\ (/\ task[t].kind = "start" /\ task'[t].kind = "start"
        /\ heap[task[t].obj].status \in {"COMPLETED", "FAILED"}) =>
            heap'[task[t].obj].status = heap[task[t].obj].status
    /\ (task'[t].kind = "start" /\ task'[t].pc = "done") =>
            heap'[task'[t].obj].status \in {"COMPLETED", "FAILED"}

\* the notifier is called once, after the store write of the terminal state
\* was issued, with the terminal status as payload
C19_StoreThenNotify(t) ==
    /\ Len(task'[t].notified) <= 1
    /\ (task[t].kind = "start" /\ task'[t].notified # task[t].notified) =>
            /\ Obj(t).status \in {"COMPLETED", "FAILED"}
            /\ \/ store[task[t].sid] = to_dict(Obj(t))
               \/ storeFailed[task[t].sid]
            /\ task'[t].notified[1].outcome # "skipped" =>
                    task'[t].notified[1].payload.status = Obj(t).status
    /\ (task'[t].kind = "start" /\ task'[t].pc = "done") =>
            Len(task'[t].notified) = 1

C19_OnceStoredNotified ==
    [][\A t \in TaskIds : C19_Once(t) /\ C19_StoreThenNotify(t)]_vars

BothFinished(u, r) ==
    /\ task[u].kind = "update" /\ task[u].pc = "done" /\ task[u].obj # 0
    /\ task[r].kind = "regen" /\ task[r].pc = "done" /\ task[r].obj # 0
    /\ task[u].sid = task[r].sid

\* the artifacts of d that the regeneration type does not produce itself are
\* the ones update_workflow_progress merged
HasPushed(d, pushed, rtype) ==
    \A k \in DOMAIN pushed \ RegenKeys(rtype) : Get(d, k) = pushed[k]

\* C20: when update_workflow_progress and regenerate_content have both run
\* on a session and all calls have returned, the stored record and the
\* answer of a status query still hold the artifacts the update merged
\* (those the regeneration does not produce itself), however the two calls
\* were interleaved.
C20_NoLostUpdate ==
    \A u, r \in TaskIds :
        (BothFinished(u, r) /\ Quiescent) =>
            /\ HasPushed(store[task[u].sid].generated_content, task[u].pushed,
                         task[r].rtype)
            /\ HasPushed(StatusView(task[u].sid).generated_content, task[u].pushed,
                         task[r].rtype)

\* the fields of the run state
RunStateFields ==
    {"session_id", "event_id", "status", "current_step", "completed_steps",
     "failed_steps", "event_data", "content_preferences", "user_info",
     "generated_content", "start_time", "estimated_completion", "error_message"}

SameRunState(a, b) == \A f \in RunStateFields : a[f] = b[f]

\* C21: a WorkflowState written by _store_workflow_state (to_dict) and
\* rebuilt by _get_workflow_state equals the original in every field of the
\* run state, timestamps included, also when estimated_completion is None.
C21_RoundTrip ==
    /\ heap[2] # NoObj => SameRunState(heap[2], heap[1])
    /\ SameRunState(from_dict(to_dict(heap[1])), heap[1])

C21_Witness ==
    /\ heap[2] # NoObj
    /\ heap[1].estimated_completion = NoTime
    /\ heap[1].start_time.micro # 0
    /\ store[heap[1].session_id].start_time # heap[1].start_time

\* the required fields event_data has no non-empty value for
Lacking(event_data) ==
    {f \in {"title", "description", "start_date"} :
        f \notin DOMAIN event_data \/ event_data[f] = "" \/ event_data[f] = None}

KeysWritten(n, st) ==
    DOMAIN StepBegin(n, [st EXCEPT !.generated_content = EmptyDict]).st.generated_content

\* run t is over, its create_flyer got an error result and its filing steps
\* succeeded
FlyerErrorRun(t) ==
    /\ task[t].pc = "done" /\ Alone(t)
    /\ "flyer_error" \in DOMAIN Obj(t).generated_content
    /\ \A n \in {"setup_google_drive", "create_calendar_event", "create_clickup_task"} :
           Contains(Obj(t).completed_steps, n)

\* the part of C23 on the status and the error artifact
C23_CompletedWithFlyerError ==
    \A t \in Runs :
        FlyerErrorRun(t) =>
            /\ Obj(t).status = "COMPLETED"
            /\ Truthy(Obj(t).generated_content["flyer_error"])
            /\ Contains(Obj(t).failed_steps, "create_flyer")

\* C23: a run whose create_flyer got an error result from its collaborator
\* and whose later filing steps succeeded ends COMPLETED with flyer_error
\* set, and its generated_content holds the identifiers written by
\* create_calendar_event and create_clickup_task.
C23_FlyerErrorKeepsIdentifiers ==
    \A t \in Runs :
        FlyerErrorRun(t) =>
            /\ Obj(t).status = "COMPLETED"
            /\ Truthy(Obj(t).generated_content["flyer_error"])
            /\ \A n \in {"create_calendar_event", "create_clickup_task"} :
                   /\ KeysWritten(n, Obj(t)) # {}
                   /\ KeysWritten(n, Obj(t)) \subseteq DOMAIN Obj(t).generated_content

\* the step is a get_workflow_status call, made as call t
StatusCall(t) == task[t].kind = "idle" /\ task'[t].kind = "status"

\* C24: get_workflow_status(session_id) returns the record of the
\* active_workflows entry when there is one (whatever the store holds),
\* otherwise the record rebuilt from the store, and None exactly when the id
\* is in neither; a store read error is therefore not answered with None.
C24_StatusSources ==
    [][\A t \in TaskIds :
          StatusCall(t) =>
              LET sid == task'[t].sid
              IN  /\ active[sid] # 0 =>
                         task'[t].result = to_dict(heap[active[sid]])
                  /\ (active[sid] = 0 /\ store[sid] # NoRec) =>
                         task'[t].result = to_dict(from_dict(store[sid]))
                  /\ (task'[t].ret = None) <=>
                         (active[sid] = 0 /\ store[sid] = NoRec)]_vars

\* the part of C24 that does not depend on the store read succeeding
C24_MemoryFirst ==
    [][\A t \in TaskIds :
          StatusCall(t) =>
              LET sid == task'[t].sid
              IN  /\ active[sid] # 0 =>
                         task'[t].result = to_dict(heap[active[sid]])
                  /\ (active[sid] = 0 /\ store[sid] # NoRec /\ task'[t].ret # None) =>
                         task'[t].result = to_dict(from_dict(store[sid]))
                  /\ (active[sid] = 0 /\ store[sid] = NoRec) => task'[t].ret = None]_vars

\* the step is an update_workflow_progress call, made as call t, that found
\* the run and accepted the status
UpdateCall(t) == task[t].kind = "idle" /\ task'[t].kind = "update" /\ task'[t].obj # 0

\* what update_workflow_progress does apart from the step lists
C25_MergeAndPersist(t) ==
    UpdateCall(t) =>
        LET old == Loaded(task'[t].sid)
            new == heap'[task'[t].obj]
            in == task'[t].input
        IN  /\ DOMAIN new.generated_content =
                   DOMAIN old.generated_content \cup DOMAIN in.generated_content
            /\ \A k \in DOMAIN new.generated_content :
                   new.generated_content[k] =
                       IF k \in DOMAIN in.generated_content
                       THEN in.generated_content[k] ELSE old.generated_content[k]
            /\ new.status = StatusOfValue(in.status)
            /\ new.current_step = in.current_step
            /\ store'[task'[t].sid] = to_dict(new)

\* a list that is provided, empty or not, replaces the run's list
C25_ListsReplaced(t) ==
    UpdateCall(t) =>
        LET new == heap'[task'[t].obj]
            in == task'[t].input
        IN  /\ in.completed_steps # NoList => new.completed_steps = in.completed_steps
            /\ in.failed_steps # NoList => new.failed_steps = in.failed_steps

C25_UpdateMerges == [][\A t \in TaskIds : C25_MergeAndPersist(t)]_vars

\* C25: update_workflow_progress on an existing run merges the given
\* generated_content into the run's (other keys keep their values), replaces
\* completed_steps and failed_steps whenever a list is provided, an empty
\* list included, sets status and current_step as given, and stores the
\* result.
C25_UpdateApplies ==
    [][\A t \in TaskIds : C25_MergeAndPersist(t) /\ C25_ListsReplaced(t)]_vars

\* the run of sid exists: it is in active_workflows or in the store
Exists(sid) == active[sid] # 0 \/ store[sid] # NoRec

\* the step is a cancel_workflow call made as call t (it returns False at
\* once, or goes on to the store write and returns True later)
CancelCall(t) == task[t].kind = "idle" /\ task'[t].kind = "cancel"

\* cancel_workflow goes on to return True exactly for an existing run whose
\* status is IN_PROGRESS; a call that returns False changes nothing
C26_Decision(t) ==
    CancelCall(t) =>
        LET sid == task'[t].sid
        IN  /\ (task'[t].ret # "False") <=>
                   (Exists(sid) /\ Loaded(sid).status = "IN_PROGRESS")
            /\ task'[t].ret = "False" =>
                   heap' = heap /\ store' = store /\ active' = active

\* when cancel_workflow returns True the stored record is CANCELLED with
\* current_step "cancelled" and the run is not in active_workflows
C26_Effect(t) ==
    (task[t].kind = "cancel" /\ task[t].ret # "True" /\ task'[t].ret = "True") =>
        LET sid == task[t].sid
        IN  /\ store'[sid] # NoRec
            /\ store'[sid].status = "cancelled"
            /\ store'[sid].current_step = "cancelled"
            /\ active'[sid] = 0

C26_CancelDecides == [][\A t \in TaskIds : C26_Decision(t)]_vars

\* C26: cancel_workflow returns True only for an existing run whose status
\* is IN_PROGRESS, and then the stored record has status CANCELLED and
\* current_step "cancelled" and the run is not in active_workflows; in every
\* other case it returns False and leaves active_workflows, the state in
\* memory and the stored record unchanged.
C26_CancelContract ==
    [][\A t \in TaskIds : C26_Decision(t) /\ C26_Effect(t)]_vars

\* the names current_step may take
StepVocabulary == NodeSet \cup {"completed", "cancelled", "error"}

\* C27: in every reachable state the current_step of every run, in memory
\* and in the store, is one of the eight registered step names or one of
\* "completed", "cancelled", "error".
C27_CurrentStepVocabulary ==
    /\ \A t \in TaskIds : heap[t] # NoObj => heap[t].current_step \in StepVocabulary
    /\ \A sid \in Sessions :
           store[sid] # NoRec => store[sid].current_step \in StepVocabulary

\* C28: in every reachable state no step name occurs more than once in the
\* completed_steps of a run, in memory or in the store, so their length
\* never exceeds the eight registered steps.
C28_NoDoubleCount ==
    /\ \A t \in TaskIds :
           heap[t] # NoObj =>
               /\ \A n \in NodeSet : Count(heap[t].completed_steps, n) <= 1
               /\ Len(heap[t].completed_steps) <= Len(Nodes)
    /\ \A sid \in Sessions :
           store[sid] # NoRec =>
               /\ \A n \in NodeSet : Count(store[sid].completed_steps, n) <= 1
               /\ Len(store[sid].completed_steps) <= Len(Nodes)

\* the step begins a regenerate_content call that works on object o
RegenCallOn(o) ==
    \E t \in TaskIds :
        task[t].kind = "idle" /\ task'[t].kind = "regen" /\ task'[t].obj = o

\* event_data and content_preferences of a state object as it lives on
InputsKept(o) ==
    (heap[o] # NoObj /\ heap'[o] # NoObj) =>
        /\ heap'[o].event_data = heap[o].event_data
        /\ heap'[o].content_preferences # heap[o].content_preferences => RegenCallOn(o)

\* C29: after creation a run's event_data never changes and its
\* content_preferences changes only by the overrides of regenerate_content;
\* no step of the main pipeline modifies content_preferences.
C29_InputsImmutable == [][\A o \in TaskIds : InputsKept(o)]_vars

\* the part of C29 on event_data
C29_EventDataKept ==
    [][\A o \in TaskIds :
          (heap[o] # NoObj /\ heap'[o] # NoObj) =>
              heap'[o].event_data = heap[o].event_data]_vars

\* the step runs create_social_content of run t on a state with no
\* non-empty flyer_url
SocialWithoutFlyer(t) ==
    /\ task[t].kind = "start" /\ task[t].pc = "node"
    /\ task[t].node = "create_social_content"
    /\ task'[t] # task[t]
    /\ ~Truthy(Get(Obj(t).generated_content, "flyer_url"))

\* the step then awaits no collaborator, records social_media_error, leaves
\* completed_steps alone, raises nothing, and the graph is at the next step
C30_Skip(t) ==
    SocialWithoutFlyer(t) =>
        /\ task'[t].pc = "node" /\ task'[t].node = "create_whatsapp_message"
        /\ task'[t].exc = NoMessage
        /\ Truthy(Get(heap'[task[t].obj].generated_content, "social_media_error"))
        /\ heap'[task[t].obj].completed_steps = Obj(t).completed_steps

\* in a run no other call touches, create_social_content is completed only
\* with a flyer_url
C30_Consequence(t) ==
    (task[t].kind = "start" /\ Alone(t)
     /\ Contains(Obj(t).completed_steps, "create_social_content")) =>
        Truthy(Get(Obj(t).generated_content, "flyer_url"))

\* C30: when create_social_content runs and generated_content has no
\* non-empty flyer_url, the step calls no collaborator, records
\* social_media_error, does not append itself to completed_steps, returns
\* normally and the pipeline goes on to the next step; so in a main-pipeline
\* run create_social_content is in completed_steps only if create_flyer
\* produced a flyer_url.
C30_SocialSkippedWithoutFlyer ==
    [][\A t \in TaskIds : C30_Skip(t) /\ C30_Consequence(t)']_vars

C30_Witness ==
    \E t \in Runs :
        /\ task[t].pc = "done" /\ Alone(t)
        /\ Contains(Obj(t).completed_steps, "create_flyer")
        /\ ~Truthy(Get(Obj(t).generated_content, "flyer_url"))
        /\ Truthy(Get(Obj(t).generated_content, "social_media_error"))
        /\ ~Contains(Obj(t).completed_steps, "create_social_content")
        /\ Obj(t).status = "COMPLETED"

\* the step is the return of the collaborator call of step n, run by call t
\* (the pipeline, or a regeneration whose last selected step is n), and the
\* step has put itself into failed_steps
StepFailed(t, n) ==
    /\ task[t].pc = "await" /\ task'[t] # task[t]
    /\ \/ task[t].kind = "start" /\ task[t].node = n
       \/ task[t].kind = "regen" /\ task[t].todo = <<n>>
    /\ heap'[task[t].obj].failed_steps = Append(Obj(t).failed_steps, n)

\* C31: a create_flyer, create_social_content, create_whatsapp_message or
\* setup_google_drive that fails changes no generated_content key other
\* than its own error artifact, so a failed regeneration of a step keeps the
\* artifacts the step produced earlier.
C31_FailedStepKeepsArtifacts ==
    [][\A t \in TaskIds : \A n \in AwaitingSteps :
          StepFailed(t, n) =>
              SameOutside(Obj(t).generated_content,
                          heap'[task[t].obj].generated_content,
                          StepErrorKeys(n))]_vars

\* the same for create_flyer and setup_google_drive alone
C31_FlyerDriveKeepArtifacts ==
    [][\A t \in TaskIds : \A n \in {"create_flyer", "setup_google_drive"} :
          StepFailed(t, n) =>
              SameOutside(Obj(t).generated_content,
                          heap'[task[t].obj].generated_content,
                          StepErrorKeys(n))]_vars

\* C32: in a regenerate_content call of type "all" on an existing run, a
\* failing step does not stop the others: the call never takes its except
\* branch, and once past its steps it has invoked create_flyer,
\* create_social_content and create_whatsapp_message in that order and the
\* status is COMPLETED (no cancel, update or other regenerate call made).
C32_RegenAllRunsEveryStep ==
    \A t \in CallsOf("regen") :
        (task[t].rtype = "all" /\ task[t].obj # 0 /\ RegenAlone(t)) =>
            /\ task[t].pc # "regen_failed"
            /\ IsPrefix(task[t].invoked, ExpectedSteps("all"))
            /\ (task[t].pc \in {"regen_stored", "regen_notified", "done"} =>
                    /\ task[t].invoked = ExpectedSteps("all")
                    /\ Obj(t).status = "COMPLETED")

C32_Witness ==
    \E t \in CallsOf("regen") :
        /\ task[t].rtype = "all" /\ task[t].obj # 0 /\ task[t].pc = "done"
        /\ RegenAlone(t)
        /\ "flyer_error" \in DOMAIN Obj(t).generated_content
        /\ Truthy(Get(Obj(t).generated_content, "flyer_url"))
        /\ Count(Obj(t).failed_steps, "create_flyer") = 1
        /\ Get(Obj(t).generated_content, "whatsapp_message") = Tag(t)
        /\ Obj(t).status = "COMPLETED"

\* C33: a run that ends COMPLETED through the main pipeline, whatever
\* failures its steps recorded in failed_steps, has error_message unset, and
\* the payload of its notification has no error_message (no other call on
\* the run).
C33_CompletedHasNoErrorMessage ==
    \A t \in Runs :
        (task[t].pc = "done" /\ Alone(t) /\ Obj(t).status = "COMPLETED") =>
            /\ Obj(t).error_message = NoMessage
            /\ task[t].notified[1].outcome # "skipped" =>
                   "error_message" \notin DOMAIN task[t].notified[1].payload

\* the part of C33 on runs none of whose collaborator calls raised
C33_UnsetWithoutException ==
    \A t \in Runs :
        (task[t].pc = "done" /\ Alone(t) /\ Obj(t).status = "COMPLETED"
         /\ Obj(t).error_message # NoMessage) =>
            \E n \in AwaitingSteps : Contains(Obj(t).failed_steps, n)

\* two start_workflow calls were made with the same session_id
SameSession(t, u) ==
    t # u /\ task[t].kind = "start" /\ task[u].kind = "start" /\ task[t].sid = task[u].sid

\* each of two runs started under one session_id works on a state object of
\* its own and its pipeline ends COMPLETED or FAILED
C35_IndependentPipelines ==
    \A t, u \in TaskIds :
        SameSession(t, u) =>
            /\ task[t].obj # task[u].obj
            /\ (task[t].pc = "done" => Obj(t).status \in {"COMPLETED", "FAILED"})

\* C35: two start_workflow calls with the same session_id create two
\* independent runs, each with a state of its own, each run to a terminal
\* status by its own pipeline, and each in active_workflows until its own
\* terminal transition.
C35_BothRunsVisible ==
    \A t, u \in TaskIds :
        SameSession(t, u) =>
            /\ task[t].obj # task[u].obj
            /\ (task[t].pc = "done" => Obj(t).status \in {"COMPLETED", "FAILED"})
            /\ (~Ended(t) => active[task[t].sid] = task[t].obj)

\* the state objects of session sid
ObjectsOf(sid) == {o \in TaskIds : heap[o] # NoObj /\ heap[o].session_id = sid}

\* a step of a call on session a leaves session b as it is
Untouched(b) ==
    /\ active'[b] = active[b]
    /\ store'[b] = store[b]
    /\ \A o \in ObjectsOf(b) : heap'[o] = heap[o]

C36_AgentsRunCompletesAll ==
    \A t \in Runs :
        (Ended(t) /\ Contains(Obj(t).completed_steps, "validate_input")) =>
            /\ Obj(t).status = "COMPLETED"
            /\ \A n \in NodeSet : Contains(Obj(t).completed_steps, n)
            /\ Obj(t).failed_steps = << >>
            /\ calculate_progress(Obj(t)) = 100
            /\ \A k \in {"instagram_caption", "linkedin_caption",
                         "twitter_caption", "whatsapp_message"} :
                   Get(Obj(t).generated_content, k) = Tag(t)

\* what does hold of such a run: it ends COMPLETED, the flyer and the drive
\* folder are produced, and the two content steps are in failed_steps
C36_AgentsRunContentStepsFail ==
    \A t \in Runs :
        (Ended(t) /\ Contains(Obj(t).completed_steps, "validate_input")) =>
            /\ Obj(t).status = "COMPLETED"
            /\ Get(Obj(t).generated_content, "flyer_url") = Tag(t)
            /\ Get(Obj(t).generated_content, "google_drive_folder_url") = Tag(t)
            /\ Contains(Obj(t).failed_steps, "create_social_content")
            /\ Contains(Obj(t).failed_steps, "create_whatsapp_message")
            /\ ~Truthy(Get(Obj(t).generated_content, "instagram_caption"))
            /\ ~Truthy(Get(Obj(t).generated_content, "whatsapp_message"))

\* how often step n is recorded in the two lists of a state
Recorded(st, n) == Count(st.completed_steps, n) + Count(st.failed_steps, n)

\* call t is a pipeline run whose node n has finished
StepRan(t, n) ==
    /\ Contains(task[t].invoked, n)
    /\ ~(task[t].pc = "await" /\ task[t].node = n)

\* C37: in a pipeline run with no regeneration and no progress push, every
\* step that ran is recorded exactly once, in exactly one of completed_steps
\* and failed_steps, and no other step is recorded: the lists are disjoint
\* and duplicate-free; when the run has ended COMPLETED their lengths sum to 8.
C37_StepsRecordedOnce ==
    \A t \in Runs :
        task[t].obj # 0 =>
            /\ \A n \in NodeSet :
                   Recorded(Obj(t), n) = IF StepRan(t, n) THEN 1 ELSE 0
            /\ \A i \in DOMAIN Obj(t).completed_steps :
                   Obj(t).completed_steps[i] \in NodeSet
            /\ \A i \in DOMAIN Obj(t).failed_steps :
                   Obj(t).failed_steps[i] \in NodeSet
            /\ (Ended(t) /\ Obj(t).status = "COMPLETED") =>
                   Len(Obj(t).completed_steps) + Len(Obj(t).failed_steps) = 8

\* a run has ended COMPLETED with steps in both lists, three of them failed
C37_Witness ==
    \E t \in Runs :
        /\ task[t].pc = "done" /\ Obj(t).status = "COMPLETED"
        /\ Len(Obj(t).failed_steps) = 3
        /\ Len(Obj(t).completed_steps) = 5
        /\ Contains(Obj(t).failed_steps, "setup_google_drive")

\* the step is an update_workflow_progress call, made as call t, for a
\* session that is neither in active_workflows nor in the store, or with a
\* status string that is not a WorkflowStatus value
RejectedUpdate(t) ==
    /\ task[t].kind = "idle" /\ task'[t].kind = "update"
    /\ \/ ~Exists(task'[t].sid)
       \/ StatusOfValue(task'[t].input.status) = None

\* C38: update_workflow_progress for an unknown session_id, or with a status
\* string that is not a WorkflowStatus value, changes no state object, leaves
\* the active set and the store as they are (so creates no record), and
\* returns to its caller without an error.
C38_RejectedUpdateNoEffect ==
    [][\A t \in TaskIds :
          RejectedUpdate(t) =>
              /\ heap' = heap /\ active' = active /\ store' = store
              /\ task'[t].pc = "done" /\ task'[t].obj = 0
              /\ task'[t].ret = "" /\ task'[t].exc = NoMessage]_vars

\* both cases have happened: an update for a session nothing was started on,
\* and later an update with an unknown status string for a run in progress
C38_Witness ==
    \E t, u, w \in TaskIds :
        /\ t < u /\ u < w
        /\ task[t].kind = "update" /\ task[t].pc = "done" /\ task[t].obj = 0
        /\ StatusOfValue(task[t].input.status) # None
        /\ task[u].kind = "start" /\ task[u].sid = task[w].sid
        /\ task[w].kind = "update" /\ task[w].pc = "done" /\ task[w].obj = 0
        /\ task[w].input.status = "no_such_status"
        /\ active[task[w].sid] = u /\ Obj(u).status = "IN_PROGRESS"
        /\ Obj(u).current_step # task[w].input.current_step

\* the response ends the polling: COMPLETED with a URL, or FAILED, in a
\* 200 response with a JSON object
PollCompleted(r) ==
    /\ r.kind = "response" /\ r.code = 200 /\ r.body = "dict"
    /\ r.status = "COMPLETED" /\ r.url # None

PollRenderFailed(r) ==
    r.kind = "response" /\ r.code = 200 /\ r.body = "dict" /\ r.status = "FAILED"

PollDecisive(r) == PollCompleted(r) \/ PollRenderFailed(r)

\* the result the responses received so far call for
PollExpected(f) ==
    LET n == Len(f.responses)
    IN  /\ \A i \in 1..(n - 1) : ~PollDecisive(f.responses[i])
        /\ IF n > 0 /\ PollCompleted(f.responses[n])
           THEN f.result = PollSuccess(f.responses[n].url)
           ELSE IF n > 0 /\ PollRenderFailed(f.responses[n])
           THEN f.result = PollFailed
           ELSE n = f.max_attempts /\ f.result = PollTimedOut

\* C39: _poll_templated_render_status never makes more than max_attempts
\* status requests, never raises, and always comes to return: the flyer_url
\* result at the first response that is COMPLETED with a URL, the error
\* result at the first FAILED response, and the timeout error result after
\* max_attempts requests none of which was either.
C39_PollTerminatesWithResult ==
    /\ [](Len(heap[1].responses) <= heap[1].max_attempts)
    /\ [](heap[1].pc # "raised")
    /\ [](heap[1].pc = "returned" => PollExpected(heap[1]))
    /\ <>(heap[1].pc = "returned")

\* the polling has returned the flyer at its third request, after a request
\* that raised and a 500 response
C39_Witness ==
    /\ heap[1].pc = "returned"
    /\ Len(heap[1].responses) = 3
    /\ heap[1].responses[1].kind = "exception"
    /\ heap[1].responses[2].code = 500
    /\ PollCompleted(heap[1].responses[3])
    /\ heap[1].result = PollSuccess("https://img")

====
